---- MODULE Spec2Model ----
(***************************************************************************)
(* OpenEVT evt2d simulation core: the fixed-timestep step function of the  *)
(* series-hybrid powertrain, its control-mode strategy table and the       *)
(* state initializer, as a state machine whose single operation is one     *)
(* call of step(state, inputs, config, dt).                                *)
(*                                                                         *)
(* The source computes in IEEE doubles.  The model computes in fixed point *)
(* with these integer units (floor division wherever the source divides):  *)
(*   power            W          (source: kW)                              *)
(*   fractions, aps   1/1000     (source: 0..1)                            *)
(*   soc              1/1000000  (source: 0..1)                            *)
(*   voltage          0.1 V      current 0.1 A     resistance  mOhm        *)
(*   time, dt         ms         (source: s)                               *)
(*   energy           1e-6 kWh   fuel  1e-6 gal                            *)
(*   engine speed     rpm        wheel and motor speed  0.01 rpm           *)
(*   torque           0.1 Nm     (config torque fields: Nm)                *)
(*   vehicle speed    mm/s       force N   acceleration mm/s^2             *)
(*   length           0.1 mm (tire/circumference), mm (distance)           *)
(* The source's tolerances map onto these units: 1e-6 kW is below one W,   *)
(* so "x > y + 1e-6" on integers is "x > y"; 0.01 kW is 10 W, 0.5 kW is    *)
(* 500 W, 2 V is 20 units.                                                 *)
(***************************************************************************)
EXTENDS Integers, Sequences, FiniteSets, TLC

VARIABLES config, dt, state, prev, inputs, loc, called, heap, worker, trace,
          search, sched, sampled

vars ==
    <<config, dt, state, prev, inputs, loc, called, heap, worker, trace, search,
      sched, sampled>>

----------------------------------------------------------------------------
(* Scalar helpers.                                                         *)

Max(a, b) == IF a >= b THEN a ELSE b

Min(a, b) == IF a <= b THEN a ELSE b

Abs(a) == IF a < 0 THEN -a ELSE a

\* floor(a * b / c) for c > 0 without forming a * b (32-bit safe while
\* (c - 1) * |b| fits).
MulDiv(a, b, c) == (a \div c) * b + (((a % c) * b) \div c)

\* utils.ts clamp: Math.max(min, Math.min(max, v)).
clamp(v, min, max) == Max(min, Min(max, v))

\* utils.ts lerp with t in 1/1000.
lerp(a, b, t) == a + (((b - a) * t) \div 1000)

\* step.ts / controlProfiles.ts local smoothstep; edges and x share one unit,
\* the result is in 1/1000.  The source floors the span at 1e-6; the
\* smallest positive span of the integer unit is 1.
smoothstep(edge0, edge1, x) ==
    LET t == clamp(((x - edge0) * 1000) \div Max(1, edge1 - edge0), 0, 1000)
    IN  (t * t * (3000 - 2 * t)) \div 1000000

\* utils.ts rpmShape: the engine's power shape over RPM, peaking at effRpm.
\* Result in 1/1000.  (The config always carries a numeric effRpm.)
rpmShape(rpm, idle, redline, effRpm) ==
    LET span  == Max(1, redline - idle)
        x     == clamp(((rpm - idle) * 1000) \div span, 0, 1200)
        xEff  == clamp(((effRpm - idle) * 1000) \div span, 150, 950)
        xLow  == clamp((xEff * 550) \div 1000, 50, xEff - 10)
        xHigh == clamp(xEff + (((1000 - xEff) * 670) \div 1000), xEff + 10, 1000)
    IN  IF x <= xLow
          THEN lerp(300, 850, clamp((x * 1000) \div Max(1, xLow), 0, 1000))
        ELSE IF x <= xEff
          THEN lerp(850, 1000, clamp(((x - xLow) * 1000) \div Max(1, xEff - xLow), 0, 1000))
        ELSE IF x <= xHigh
          THEN lerp(1000, 800, clamp(((x - xEff) * 1000) \div Max(1, xHigh - xEff), 0, 1000))
        ELSE IF x <= 1000
          THEN lerp(800, 550, clamp(((x - xHigh) * 1000) \div Max(1, 1000 - xHigh), 0, 1000))
        ELSE 450

\* Integer square root (largest r with r * r <= n), for Math.sin(Math.atan(.)).
RECURSIVE IsqrtFrom(_, _, _)
IsqrtFrom(n, lo, hi) ==
    IF lo >= hi THEN lo
    ELSE LET m == (lo + hi + 1) \div 2
         IN  IF m * m <= n THEN IsqrtFrom(n, m, hi) ELSE IsqrtFrom(n, lo, m - 1)

Isqrt(n) == IsqrtFrom(n, 0, 46340)

\* Math.sin(Math.atan(gradePct / 100)) = g / sqrt(g^2 + 100^2), in 1/10000.
sinAtanGrade(gradePct) ==
    (gradePct * 100000) \div Isqrt((gradePct * gradePct + 10000) * 100)

----------------------------------------------------------------------------
(* Configurations.                                                         *)

\* sim/defaults.ts defaultConfig (the copy bundled with App.tsx), in the
\* model's units; the fields step does not read (mode, cylinders) are left out.
defaultConfig ==
    [ vehicle |->
        [ massKg |-> 2400, cdA |-> 900, cr |-> 12, drivetrainEff |-> 920,
          tireDiameterIn |-> 31, tractionReduction |-> 2900, diffRatio |-> 3730,
          motorPeakPowerKw |-> 240000, motorMaxRpm |-> 11000,
          tracRampKwPerS |-> 300000, evAssistStrength |-> 500,
          regenMaxKw |-> 80000, regenForceGain |-> 1000, regenMaxSoc |-> 900000 ],
      battery |->
        [ capacityKwh |-> 14000, initialSoc |-> 200000, vNom |-> 3600, rInt |-> 60,
          maxDischargeKw |-> 180000, maxChargeKw |-> 120000,
          socMin |-> 80000, socMax |-> 940000,
          socTarget |-> 600000, socTargetBand |-> 80000 ],
      engine |->
        [ controlMode |-> "bsfc_island", bsfcProfileId |-> "custom",
          idleRpm |-> 900, redlineRpm |-> 5200, effRpm |-> 2400,
          apsOn |-> 50, apsOff |-> 30,
          islandRpmMin |-> 1800, islandRpmMax |-> 3200,
          islandTqMinNm |-> 200, islandTqMaxNm |-> 600,
          pEpsilonKw |-> 2000, minOnTimeSec |-> 1000, minOffTimeSec |-> 1000,
          maxPowerKw |-> 190000, rpmTimeConst |-> 600,
          engineEff |-> 320, fuelKwhPerGallon |-> 33700 ],
      generator |->
        [ controlMode |-> "bsfc_island", maxElecKw |-> 165000, eff |-> 920,
          demandRampKwPerS |-> 120000, proRampKwPerS |-> 45000,
          responseTimeSec |-> 2500, stepUpRatio |-> 2200 ],
      bus |-> [ vMin |-> 3000, vMax |-> 4300 ] ]

\* controlProfiles.ts resolveControlMode.
resolveControlMode(cfg) == cfg.generator.controlMode

----------------------------------------------------------------------------
(* BSFC (efficiency island) model.  bsfc values in 0.01 g/kWh, torque in   *)
(* 0.1 Nm.                                                                 *)

\* bsfc.ts BSFC_PROFILES; an absent optional field is an absent record field.
BSFC_PROFILES ==
    [ id \in { "custom", "7.4l-carb", "7.4l-efi", "lq4-6.0l", "5l", "3l", "2.5l",
               "2l", "1.5l", "6bt-400kw", "cummins-l9-bus" } |->
        CASE id = "custom" -> [ fuel |-> "gasoline" ]
          [] id = "7.4l-carb" -> [ fuel |-> "gasoline", bsfcMinOverride |-> 28000 ]
          [] id = "7.4l-efi" -> [ fuel |-> "gasoline", bsfcMinOverride |-> 25500 ]
          [] id = "lq4-6.0l" -> [ fuel |-> "gasoline", bsfcMinOverride |-> 25500 ]
          [] id = "5l" -> [ fuel |-> "gasoline", bsfcMinOverride |-> 25000 ]
          [] id = "3l" -> [ fuel |-> "gasoline", bsfcMinOverride |-> 24000 ]
          [] id = "2.5l" -> [ fuel |-> "gasoline", bsfcMinOverride |-> 23500 ]
          [] id = "2l" -> [ fuel |-> "gasoline", bsfcMinOverride |-> 23000 ]
          [] id = "1.5l" -> [ fuel |-> "gasoline", bsfcMinOverride |-> 22500 ]
          [] id = "6bt-400kw" ->
               [ fuel |-> "diesel", bsfcMinOverride |-> 20500, islandTqFrac |-> 720 ]
          [] id = "cummins-l9-bus" ->
               [ fuel |-> "diesel", bsfcMinOverride |-> 20000, islandTqFrac |-> 750,
                 islandRpmBias |-> -50 ] ]

\* bsfc.ts buildBsfcSpec.
buildBsfcSpec(engine) ==
    LET rpmMin == Max(500, Min(engine.idleRpm, engine.redlineRpm \div 2))
        rpmMax == Max(rpmMin + 500, engine.redlineRpm)
        effRpm == Max(engine.idleRpm,
                      Min(IF engine.effRpm # 0 THEN engine.effRpm
                          ELSE (rpmMin + rpmMax) \div 2,
                          rpmMax))
        tqMax == Max(1500, Min(26000, engine.islandTqMaxNm * 10))
        prof == IF engine.bsfcProfileId \in DOMAIN BSFC_PROFILES
                THEN BSFC_PROFILES[engine.bsfcProfileId]
                ELSE BSFC_PROFILES["custom"]
        bsfcMinFromEff == 7500000 \div Max(120, engine.engineEff)
        bsfcMin == Max(19500, Min(31000,
                       IF "bsfcMinOverride" \in DOMAIN prof
                       THEN prof.bsfcMinOverride ELSE bsfcMinFromEff))
        bsfcMax == Max(bsfcMin + 8000, Min(52000,
                       IF "bsfcMaxOverride" \in DOMAIN prof
                       THEN prof.bsfcMaxOverride ELSE bsfcMin + 22000))
        islandRpmBias == IF "islandRpmBias" \in DOMAIN prof
                         THEN prof.islandRpmBias ELSE 0
        islandRpm == Max(rpmMin + 200,
                         Min(rpmMax - 200, (effRpm * (1000 + islandRpmBias)) \div 1000))
        islandTqFrac == IF "islandTqFrac" \in DOMAIN prof
                        THEN prof.islandTqFrac ELSE 620
        islandTq == Max(engine.islandTqMinNm * 10,
                        Min((tqMax * 950) \div 1000, (tqMax * islandTqFrac) \div 1000))
    IN  [ rpmMin |-> rpmMin, rpmMax |-> rpmMax, tqMax |-> tqMax,
          bsfcMin |-> bsfcMin, bsfcMax |-> bsfcMax,
          islandRpm |-> islandRpm, islandTq |-> islandTq, fuel |-> prof.fuel ]

\* Math.pow(x, e) for x in [0, 1] (1/1000) by linear interpolation in a
\* 21-point table of round(1000 * (i / 20) ^ e).
powTable(x, table) ==
    LET i == Min(19, x \div 50)
    IN  table[i + 1] + (((table[i + 2] - table[i + 1]) * (x - 50 * i)) \div 50)

pow16(x) ==
    powTable(x, << 0, 8, 25, 48, 76, 109, 146, 186, 231, 279, 330, 384, 442, 502,
                   565, 631, 700, 771, 845, 921, 1000 >>)

pow13(x) ==
    powTable(x, << 0, 20, 50, 85, 123, 165, 209, 255, 304, 354, 406, 460, 515, 571,
                   629, 688, 748, 810, 872, 935, 1000 >>)

pow18(x) ==
    powTable(x, << 0, 5, 16, 33, 55, 82, 115, 151, 192, 238, 287, 341, 399, 461,
                   526, 596, 669, 746, 827, 912, 1000 >>)

pow14(x) ==
    powTable(x, << 0, 15, 40, 70, 105, 144, 185, 230, 277, 327, 379, 433, 489, 547,
                   607, 668, 732, 797, 863, 931, 1000 >>)

\* bsfc.ts bsfcValue.
bsfcValue(spec, rpm, tq) ==
    LET span == Max(1, spec.rpmMax - spec.rpmMin)
        r == clamp(((rpm - spec.rpmMin) * 1000) \div span, 0, 1000)
        t == clamp((tq * 1000) \div Max(10, spec.tqMax), 0, 1000)
        rpmBias == IF spec.fuel = "diesel" THEN 250 ELSE 450
        rpmPenalty == pow16(Max(0, r - rpmBias)) * 11 + pow13(Max(0, rpmBias - r)) * 7
        lowLoadPenalty == pow18((Max(0, 220 - t) * 1000) \div 220) * 22
        highLoadPenalty == pow14((Max(0, t - 920) * 1000) \div 80) * 6
        dr == ((rpm - spec.islandRpm) * 1000) \div span
        dq == ((tq - spec.islandTq) * 1000) \div Max(10, spec.tqMax)
        islandPenalty == ((dr * dr * 22) \div 1000) + MulDiv(dq * dq, 36, 1000)
        base == spec.bsfcMin + islandPenalty + rpmPenalty + lowLoadPenalty
                + highLoadPenalty
    IN  Max(spec.bsfcMin, Min(spec.bsfcMax, base))

\* The i-th of `samples` RPM values spaced uniformly over [rpmMin, rpmMax].
sampleRpm(rpmMin, rpmMax, samples, i) ==
    IF samples <= 1 THEN rpmMin + ((rpmMax - rpmMin) \div 2)
    ELSE rpmMin + (((rpmMax - rpmMin) * i) \div (samples - 1))

\* The loop of findBestRpmForTorque / findBestPointForPower keeps the first
\* admissible sample with the strictly smallest bsfc.  firstMin finds that
\* index among lo..hi by halving the range (ok[i]: sample i is admissible);
\* when no sample is admissible the result is an inadmissible index.
\* Fault variant of firstMin: the first admissible sample, whatever its bsfc.
firstAdmissible(val, ok, lo, hi) ==
    IF \E i \in lo .. hi : ok[i]
    THEN CHOOSE i \in lo .. hi : ok[i] /\ \A j \in lo .. (i - 1) : ~ok[j]
    ELSE lo

RECURSIVE firstMin(_, _, _, _)
firstMin(val, ok, lo, hi) ==
    IF lo >= hi THEN lo
    ELSE LET m == (lo + hi) \div 2
             a == firstMin(val, ok, lo, m)
             b == firstMin(val, ok, m + 1, hi)
         IN  IF ~ok[a] THEN b
             ELSE IF ~ok[b] THEN a
             ELSE IF val[b] < val[a] THEN b ELSE a

\* bsfc.ts findBestRpmForTorque (best starts at +Infinity, so the first
\* sample always replaces the fallback).
findBestRpmForTorque(spec, tqNm, rpmMin, rpmMax, samples) ==
    LET idx == 0 .. (samples - 1)
        val == [ i \in idx |->
                   bsfcValue(spec, sampleRpm(rpmMin, rpmMax, samples, i), tqNm) ]
        ok == [ i \in idx |-> TRUE ]
        best == firstMin(val, ok, 0, samples - 1)
    IN  IF idx = {}
        THEN [ rpm |-> Max(rpmMin, Min(rpmMax, spec.islandRpm)), bsfc |-> 0 ]
        ELSE [ rpm |-> sampleRpm(rpmMin, rpmMax, samples, best), bsfc |-> val[best] ]

\* bsfc.ts findBestPointForPower: the torque each sampled RPM needs for the
\* power (0.1 Nm).
tqReqAt(p, rpm) == MulDiv(p, 9549, 100) \div Max(1, rpm)

\* The no-feasible-point result of findBestPointForPower (null).
noPoint == [ found |-> FALSE, rpm |-> 0, tq |-> 0, pMechKw |-> 0, bsfc |-> 0 ]

\* No call of findBestPointForPower has been made on its own.
NoSearch ==
    [ done |-> FALSE, out |-> noPoint,
      args |-> [ pMechKw |-> 0, rpmMin |-> 0, rpmMax |-> 0, tqMin |-> 0, tqMax |-> 0,
                 samples |-> 0 ] ]

\* bsfc.ts findBestPointForPower; null is [found |-> FALSE].
findBestPointForPower(spec, pMechKw, rpmMin, rpmMax, tqMin, tqMax, samples) ==
    LET none == noPoint
        p == Max(0, pMechKw)
        idx == 0 .. (samples - 1)
        rpmAt == [ i \in idx |-> sampleRpm(rpmMin, rpmMax, samples, i) ]
        tqAt == [ i \in idx |-> tqReqAt(p, rpmAt[i]) ]
        ok == [ i \in idx |-> tqAt[i] >= tqMin /\ tqAt[i] <= tqMax ]
        val == [ i \in idx |-> IF ok[i] THEN bsfcValue(spec, rpmAt[i], tqAt[i]) ELSE 0 ]
        best == firstMin(val, ok, 0, samples - 1)
    IN  IF ~(rpmMax > rpmMin) \/ idx = {} THEN none
        ELSE IF ~ok[best] THEN none
        ELSE [ found |-> TRUE, rpm |-> rpmAt[best], tq |-> tqAt[best],
               pMechKw |-> p, bsfc |-> val[best] ]

----------------------------------------------------------------------------
(* State container / initializer.                                          *)

NoLimiter ==
    [ tracPower |-> FALSE, battDischarge |-> FALSE, battCharge |-> FALSE,
      busUv |-> FALSE, busOv |-> FALSE ]

\* step.ts createInitialState.
createInitialState(cfg) ==
    [ timeSec |-> 0, vMps |-> 0, wheelRpm |-> 0, motorRpm |-> 0, genRpm |-> 0,
      aMps2 |-> 0, distanceM |-> 0,
      rpm |-> cfg.engine.idleRpm, engineMode |-> "idle",
      rpmTarget |-> cfg.engine.idleRpm, tqTargetNm |-> 0, tpsCmd |-> 0,
      modeTimerSec |-> 0, regenActive |-> FALSE,
      soc |-> cfg.battery.initialSoc, vBus |-> cfg.battery.vNom,
      pWheelsReqKw |-> 0, pWheelsCmdKw |-> 0, pWheelsKw |-> 0,
      pTracElecKw |-> 0, pTracCapKw |-> 0,
      pGenElecCmdKw |-> 0, pGenElecKw |-> 0, pBattKw |-> 0,
      pEngAvailKw |-> 0, pEngMechKw |-> 0, fuelRateGph |-> 0,
      genDelayBuffer |->
        [ i \in 1 .. Max(1, (cfg.generator.responseTimeSec + 25) \div 50) |-> 0 ],
      genDelaySteps |-> Max(1, (cfg.generator.responseTimeSec + 25) \div 50),
      prevTps |-> 0,
      limiter |-> NoLimiter,
      limiterTime |->
        [ tracPower |-> 0, battDischarge |-> 0, battCharge |-> 0,
          busUv |-> 0, busOv |-> 0 ],
      energy |->
        [ eTracOutKwh |-> 0, eGenKwh |-> 0, eBattOutKwh |-> 0,
          eBattInKwh |-> 0, fuelGallons |-> 0 ] ]

----------------------------------------------------------------------------
(* Control-mode strategies (controlProfiles.ts).  A context ctx is the     *)
(* record [state, aps, config, dt, pTracUserReqTaperedKw, sink, socTarget, *)
(* socHigh, genAllowedDirect].                                             *)

\* controlProfiles.ts computeElecNeedKw.
computeElecNeedKw(ctx) ==
    LET battery == ctx.config.battery
        engine == ctx.config.engine
        generator == ctx.config.generator
        tracNeedKw == Max(0, ctx.pTracUserReqTaperedKw)
        band == Max(10000, battery.socTargetBand)
        socErr == ctx.state.soc - ctx.socTarget
        socFrac == clamp((socErr * 1000) \div band, -1000, 1000)
        socSpan == Max(20000, battery.socMax - battery.socMin)
        socDischargeFrac ==
            clamp(((ctx.state.soc - battery.socMin) * 1000) \div socSpan, 0, 1000)
        socChargeFrac ==
            clamp(((battery.socMax - ctx.state.soc) * 1000) \div socSpan, 0, 1000)
        maxDischargeKw == (battery.maxDischargeKw * socDischargeFrac) \div 1000
        maxChargeKw == (battery.maxChargeKw * socChargeFrac) \div 1000
        desiredDischargeKw ==
            IF socFrac > 0 THEN (socFrac * maxDischargeKw) \div 1000 ELSE 0
        desiredChargeKw ==
            IF socFrac < 0
            THEN ((((-socFrac) * 800) \div 1000)
                    * Min(maxChargeKw, generator.maxElecKw)) \div 1000
            ELSE 0
        pNeed0 == clamp(tracNeedKw + desiredChargeKw - desiredDischargeKw,
                        0, generator.maxElecKw)
        pOnKw == Max(0, engine.pEpsilonKw)
        pNeed1 == IF pNeed0 <= pOnKw THEN 0 ELSE pNeed0
        rampKwPerS == Max(0, generator.demandRampKwPerS)
        maxDelta == (rampKwPerS * ctx.dt) \div 1000
        prevCmd == ctx.state.pGenElecCmdKw
        pNeed2 == IF rampKwPerS > 0
                  THEN clamp(pNeed1, prevCmd - maxDelta, prevCmd + maxDelta)
                  ELSE pNeed1
    IN  clamp(pNeed2, 0, generator.maxElecKw)

\* Fault variant of directLikeModeUpdate: the engine may start without the
\* minimum off-time having elapsed.
directLikeModeUpdateNoMinOff(ctx, prevMode) ==
    LET engine == ctx.config.engine
        modeTimerSec == prevMode.modeTimerSec + ctx.dt
    IN  IF prevMode.engineMode = "idle"
        THEN IF ctx.aps > engine.apsOn /\ ctx.genAllowedDirect
             THEN [ engineMode |-> "island", modeTimerSec |-> 0 ]
             ELSE [ engineMode |-> "idle", modeTimerSec |-> modeTimerSec ]
        ELSE IF \/ ctx.aps < engine.apsOff
                \/ /\ ~ctx.genAllowedDirect
                   /\ modeTimerSec >= Max(0, engine.minOnTimeSec)
             THEN [ engineMode |-> "idle", modeTimerSec |-> 0 ]
             ELSE [ engineMode |-> "island", modeTimerSec |-> modeTimerSec ]

\* controlProfiles.ts directLikeModeUpdate.
directLikeModeUpdate(ctx, prevMode) ==
    LET engine == ctx.config.engine
        modeTimerSec == prevMode.modeTimerSec + ctx.dt
    IN  IF prevMode.engineMode = "idle"
        THEN IF /\ ctx.aps > engine.apsOn
                /\ ctx.genAllowedDirect
                /\ modeTimerSec >= Max(0, engine.minOffTimeSec)
             THEN [ engineMode |-> "island", modeTimerSec |-> 0 ]
             ELSE [ engineMode |-> "idle", modeTimerSec |-> modeTimerSec ]
        ELSE IF \/ ctx.aps < engine.apsOff
                \/ /\ ~ctx.genAllowedDirect
                   /\ modeTimerSec >= Max(0, engine.minOnTimeSec)
             THEN [ engineMode |-> "idle", modeTimerSec |-> 0 ]
             ELSE [ engineMode |-> "island", modeTimerSec |-> modeTimerSec ]

\* Fault variant of bsfcIslandModeUpdate: the engine may stop without the
\* minimum on-time having elapsed.
bsfcIslandModeUpdateNoMinOn(ctx, prevMode) ==
    LET engine == ctx.config.engine
        modeTimerSec == prevMode.modeTimerSec + ctx.dt
        pNeedKw == computeElecNeedKw(ctx)
        pOnKw == Max(0, engine.pEpsilonKw)
        pOffKw == (pOnKw * 600) \div 1000
    IN  IF prevMode.engineMode = "idle"
        THEN IF /\ pNeedKw > pOnKw
                /\ modeTimerSec >= Max(0, engine.minOffTimeSec)
             THEN [ engineMode |-> "island", modeTimerSec |-> 0 ]
             ELSE [ engineMode |-> "idle", modeTimerSec |-> modeTimerSec ]
        ELSE IF pNeedKw <= pOffKw
             THEN [ engineMode |-> "idle", modeTimerSec |-> 0 ]
             ELSE [ engineMode |-> "island", modeTimerSec |-> modeTimerSec ]

\* controlProfiles.ts bsfcIslandModeUpdate.
bsfcIslandModeUpdate(ctx, prevMode) ==
    LET engine == ctx.config.engine
        modeTimerSec == prevMode.modeTimerSec + ctx.dt
        pNeedKw == computeElecNeedKw(ctx)
        pOnKw == Max(0, engine.pEpsilonKw)
        pOffKw == (pOnKw * 600) \div 1000
    IN  IF prevMode.engineMode = "idle"
        THEN IF /\ pNeedKw > pOnKw
                /\ modeTimerSec >= Max(0, engine.minOffTimeSec)
             THEN [ engineMode |-> "island", modeTimerSec |-> 0 ]
             ELSE [ engineMode |-> "idle", modeTimerSec |-> modeTimerSec ]
        ELSE IF /\ pNeedKw <= pOffKw
                /\ modeTimerSec >= Max(0, engine.minOnTimeSec)
             THEN [ engineMode |-> "idle", modeTimerSec |-> 0 ]
             ELSE [ engineMode |-> "island", modeTimerSec |-> modeTimerSec ]

\* Fault variant of commandIdleDefaults: the idle command keeps the last
\* speed target.
commandIdleDefaultsHold(ctx) ==
    [ rpmTarget |-> ctx.state.rpmTarget, tqTargetNm |-> 0, tpsCmd |-> 0 ]

\* Fault variant of commandIdleDefaults: the idle command keeps the last
\* throttle.
commandIdleDefaultsThrottle(ctx) ==
    [ rpmTarget |-> ctx.config.engine.idleRpm, tqTargetNm |-> 0,
      tpsCmd |-> ctx.state.tpsCmd ]

\* controlProfiles.ts commandIdleDefaults.
commandIdleDefaults(ctx) ==
    [ rpmTarget |-> ctx.config.engine.idleRpm, tqTargetNm |-> 0, tpsCmd |-> 0 ]

\* controlProfiles.ts directCommand.
directCommand(ctx, mode) ==
    LET engine == ctx.config.engine
    IN  IF mode.engineMode # "island" THEN commandIdleDefaults(ctx)
        ELSE [ rpmTarget |->
                 clamp(engine.idleRpm
                         + (((engine.redlineRpm - engine.idleRpm) * ctx.aps) \div 1000),
                       engine.idleRpm, engine.redlineRpm),
               tqTargetNm |-> 0,
               tpsCmd |-> ctx.aps ]

\* controlProfiles.ts bsfcIslandCommand: the RPM and torque range searched.
islandSearchRange(engine) ==
    LET rpmSearchMin ==
            Max(engine.idleRpm, Min(engine.islandRpmMin, engine.islandRpmMax))
    IN  [ rpmSearchMin |-> rpmSearchMin,
          rpmSearchMax |->
              Max(rpmSearchMin + 200,
                  Min(engine.redlineRpm,
                      Max(engine.islandRpmMin, engine.islandRpmMax))),
          tqMin |-> 0,
          tqMax |-> Max(0, engine.islandTqMaxNm * 10) ]

\* Fault variant of islandDesiredPoint: no fallback, an absent best point is
\* passed on as zero torque at the island speed.
islandDesiredPointNoFallback(spec, pMechNeedKw, rng, engine) ==
    LET bestPt == IF pMechNeedKw > 1
                  THEN findBestPointForPower(spec, pMechNeedKw, rng.rpmSearchMin,
                                             rng.rpmSearchMax, rng.tqMin, rng.tqMax, 70)
                  ELSE [ found |-> FALSE ]
        pt == IF bestPt.found THEN [ rpm |-> bestPt.rpm, tq |-> bestPt.tq ]
              ELSE [ rpm |-> spec.islandRpm, tq |-> 0 ]
    IN  [ rpmDesired |-> clamp(pt.rpm, engine.idleRpm, engine.redlineRpm),
          tqDesiredNm |-> clamp(pt.tq, 0, rng.tqMax), found |-> bestPt.found ]

\* controlProfiles.ts bsfcIslandCommand: the desired operating point for a
\* mechanical power need (best point, else the torque-only fallback).
islandDesiredPoint(spec, pMechNeedKw, rng, engine) ==
    LET bestPt == IF pMechNeedKw > 1
                  THEN findBestPointForPower(spec, pMechNeedKw, rng.rpmSearchMin,
                                             rng.rpmSearchMax, rng.tqMin, rng.tqMax, 70)
                  ELSE [ found |-> FALSE ]
        fbRpm0 == clamp(spec.islandRpm, rng.rpmSearchMin, rng.rpmSearchMax)
        fbTq == clamp(tqReqAt(pMechNeedKw, fbRpm0), 0, rng.tqMax)
        pt == IF bestPt.found THEN [ rpm |-> bestPt.rpm, tq |-> bestPt.tq ]
              ELSE IF pMechNeedKw > 1
                   THEN [ rpm |-> findBestRpmForTorque(spec, fbTq, rng.rpmSearchMin,
                                                       rng.rpmSearchMax, 55).rpm,
                          tq |-> fbTq ]
                   ELSE [ rpm |-> spec.islandRpm, tq |-> 0 ]
    IN  [ rpmDesired |-> clamp(pt.rpm, engine.idleRpm, engine.redlineRpm),
          tqDesiredNm |-> clamp(pt.tq, 0, rng.tqMax), found |-> bestPt.found ]

\* controlProfiles.ts bsfcIslandCommand: the throttle that delivers the
\* commanded point's mechanical power plus the parasitic loss.
islandThrottle(engine, rpmCmd, tqCmdNm) ==
    LET pTargetMechKw == MulDiv(tqCmdNm * rpmCmd, 100, 9549)
        gAtTarget == clamp(rpmShape(rpmCmd, engine.idleRpm, engine.redlineRpm, engine.effRpm), 0, 1100)
        pMaxAtTargetKw == MulDiv(engine.maxPowerKw, gAtTarget, 1000)
        rpmNormTarget == clamp((rpmCmd * 1000) \div Max(1, engine.redlineRpm), 0, 1200)
        parasiticTargetKw ==
            MulDiv(engine.maxPowerKw,
                   10000 + ((8 * rpmNormTarget * rpmNormTarget) \div 100), 1000) \div 1000
    IN  clamp(((pTargetMechKw + parasiticTargetKw) * 1000)
                \div Max(1000, pMaxAtTargetKw), 0, 1000)

\* controlProfiles.ts bsfcIslandCommand: the setpoints slewed toward the
\* commanded point.
islandSetpoint(ctx, engine, rpmCmd, tqCmdNm, tqMax) ==
    LET tau == clamp((engine.rpmTimeConst * 800) \div 1000, 150, 1400)
        alpha == clamp((ctx.dt * 1000) \div Max(1, tau), 0, 1000)
    IN  [ rpmTarget |->
              clamp(ctx.state.rpmTarget
                      + (((rpmCmd - ctx.state.rpmTarget) * alpha) \div 1000),
                    engine.idleRpm, engine.redlineRpm),
          tqTargetNm |->
              clamp(ctx.state.tqTargetNm
                      + (((tqCmdNm - ctx.state.tqTargetNm) * alpha) \div 1000),
                    0, tqMax),
          tpsCmd |-> islandThrottle(engine, rpmCmd, tqCmdNm) ]

\* controlProfiles.ts bsfcIslandCommand: the command for a positive
\* electrical need, blended in from idle.
islandCommandFor(ctx, pElecNeedKw, des, rng) ==
    LET engine == ctx.config.engine
        generator == ctx.config.generator
        pBlendFullKw == Max(5000, (generator.maxElecKw * 120) \div 1000)
        blend == smoothstep(0, pBlendFullKw, pElecNeedKw)
    IN  islandSetpoint(ctx, engine,
            clamp(engine.idleRpm + (((des.rpmDesired - engine.idleRpm) * blend) \div 1000),
                  engine.idleRpm, engine.redlineRpm),
            clamp((des.tqDesiredNm * blend) \div 1000, 0, rng.tqMax),
            rng.tqMax)

\* controlProfiles.ts bsfcIslandCommand: the mechanical need of an
\* electrical need.
mechNeedOf(pElecNeedKw, generator) == (pElecNeedKw * 1000) \div Max(50, generator.eff)

\* No operating point was searched for by the command.
noIslandDecision ==
    [ searched |-> FALSE, pMechNeedKw |-> 0, found |-> FALSE, rpmDesired |-> 0,
      tqDesiredNm |-> 0, centreRpm |-> 0, tqMax |-> 0 ]

\* controlProfiles.ts bsfcIslandCommand: what the command decided on its way:
\* the mechanical need, whether findBestPointForPower found a point, the
\* desired point, and the island centre within the search range with the
\* torque ceiling.
islandDecision(spec, pMech, rng, des) ==
    [ searched |-> TRUE, pMechNeedKw |-> pMech, found |-> des.found,
      rpmDesired |-> des.rpmDesired, tqDesiredNm |-> des.tqDesiredNm,
      centreRpm |-> clamp(spec.islandRpm, rng.rpmSearchMin, rng.rpmSearchMax),
      tqMax |-> rng.tqMax ]

\* controlProfiles.ts bsfcIslandCommand: the command for a positive
\* electrical need, with its decision attached as field island.
islandCommandWith(ctx, pElecNeedKw, spec, pMech, rng, des) ==
    [ island |-> islandDecision(spec, pMech, rng, des) ]
      @@ islandCommandFor(ctx, pElecNeedKw, des, rng)

\* controlProfiles.ts bsfcIslandCommand.
bsfcIslandCommand(ctx, mode) ==
    IF mode.engineMode # "island" THEN commandIdleDefaults(ctx)
    ELSE IF computeElecNeedKw(ctx) <= 1 THEN commandIdleDefaults(ctx)
    ELSE islandCommandWith(ctx, computeElecNeedKw(ctx),
             buildBsfcSpec(ctx.config.engine),
             mechNeedOf(computeElecNeedKw(ctx), ctx.config.generator),
             islandSearchRange(ctx.config.engine),
             islandDesiredPoint(buildBsfcSpec(ctx.config.engine),
                                mechNeedOf(computeElecNeedKw(ctx), ctx.config.generator),
                                islandSearchRange(ctx.config.engine),
                                ctx.config.engine))

\* controlProfiles.ts bsfcIslandDirectCommand.
bsfcIslandDirectCommand(ctx, mode) ==
    LET engine == ctx.config.engine
        battery == ctx.config.battery
        generator == ctx.config.generator
        spec == buildBsfcSpec(engine)
        tpsCmd == clamp(ctx.aps, 0, 1000)
        rpmIslandCenter ==
            clamp(spec.islandRpm,
                  Min(engine.islandRpmMin, engine.islandRpmMax),
                  Max(engine.islandRpmMin, engine.islandRpmMax))
        rpmPedal ==
            clamp(engine.idleRpm
                    + (((engine.redlineRpm - engine.idleRpm) * ctx.aps) \div 1000),
                  engine.idleRpm, engine.redlineRpm)
        prevGenCmdKw == clamp(ctx.state.pGenElecCmdKw, 0, generator.maxElecKw)
        loadFrac == clamp(MulDiv(prevGenCmdKw, 1000, Max(1000, generator.maxElecKw)),
                          0, 1000)
        loadBlend == smoothstep(50, 350, loadFrac)
        effPull == 1000 - smoothstep(750, 950, ctx.aps)
        rpmTarget0 ==
            rpmPedal
              + MulDiv((rpmIslandCenter - rpmPedal) * loadBlend, effPull, 1000) \div 1000
        band == Max(10000, battery.socTargetBand)
        socDef == clamp(((ctx.socTarget - ctx.state.soc) * 1000) \div band, 0, 1000)
        rpmBoost ==
            MulDiv(((socDef * loadBlend) \div 1000) * Max(0, rpmIslandCenter - rpmTarget0),
                   800, 1000) \div 1000
        rpmTarget == clamp(rpmTarget0 + rpmBoost, engine.idleRpm, engine.redlineRpm)
    IN  IF mode.engineMode # "island" THEN commandIdleDefaults(ctx)
        ELSE [ rpmTarget |-> rpmTarget, tqTargetNm |-> 0, tpsCmd |-> tpsCmd ]

\* controlProfiles.ts CONTROL_PROFILES[controlMode].updateMode, with step.ts's
\* fallback to bsfc_island for an unknown mode.
profileUpdateMode(controlMode, ctx, prevMode) ==
    IF controlMode \in { "bsfc_island_direct", "direct" }
    THEN directLikeModeUpdate(ctx, prevMode)
    ELSE bsfcIslandModeUpdate(ctx, prevMode)

\* controlProfiles.ts CONTROL_PROFILES[controlMode].command.
profileCommand(controlMode, ctx, mode) ==
    IF controlMode = "bsfc_island_direct" THEN bsfcIslandDirectCommand(ctx, mode)
    ELSE IF controlMode = "direct" THEN directCommand(ctx, mode)
    ELSE bsfcIslandCommand(ctx, mode)

----------------------------------------------------------------------------
(* The step function (step.ts), stage by stage in the source's order.      *)

V_EPS == 1000

RHO == 1225

\* step.ts step: tire geometry (0.1 mm).
wheelCircOf(vehicle) ==
    LET tireDiameterM == IF vehicle.tireDiameterIn * 254 # 0
                         THEN vehicle.tireDiameterIn * 254 ELSE 7000
    IN  Max(100, MulDiv(tireDiameterM, 31416, 10000))

\* step.ts step: wheel speed (0.01 rpm) from vehicle speed.
wheelRpmOf(v, wheelCirc) == MulDiv(v, 60000, wheelCirc)

\* step.ts step: motor speed (0.01 rpm) from wheel speed.
motorRpmOf(wheelRpm, vehicle) ==
    MulDiv(MulDiv(wheelRpm, vehicle.tractionReduction, 1000), vehicle.diffRatio, 1000)

\* The overspeed taper factor of a step that never tapers.
overspeedScaleNone(motorRpmNow, rpmLimit, rpmSoftStart) == 1000

\* step.ts step: the overspeed taper factor (1/1000) at a motor speed.
overspeedScale(motorRpmNow, rpmLimit, rpmSoftStart) ==
    clamp(MulDiv(rpmLimit - motorRpmNow, 1000, Max(100, rpmLimit - rpmSoftStart)),
          0, 1000)

\* step.ts step: pedal intent, the driver's traction request, its overspeed
\* taper and the sink gating.
tractionRequest(st, aps, cfg, controlMode) ==
    LET vehicle == cfg.vehicle
        battery == cfg.battery
        engine == cfg.engine
        v == st.vMps
        socTarget == clamp(battery.socTarget, battery.socMin, battery.socMax)
        socBand == Max(10000, battery.socTargetBand)
        socAboveFrac == clamp(((st.soc - socTarget) * 1000) \div socBand, 0, 1000)
        evAssistStrength == clamp(vehicle.evAssistStrength, 0, 1000)
        evAssistMul ==
            IF controlMode = "bsfc_island_direct"
            THEN 1000 + ((evAssistStrength * 10 * socAboveFrac) \div 1000)
            ELSE 1000
        apsShaped == (aps * smoothstep(0, 80, aps)) \div 1000
        speedBlend == smoothstep(500, 5000, v)
        apsForTrac ==
            IF controlMode # "bsfc_island_direct" THEN aps
            ELSE aps + (((apsShaped - aps) * speedBlend) \div 1000)
        pTracUserReqKw ==
            MulDiv((apsForTrac * vehicle.motorPeakPowerKw) \div 1000, evAssistMul, 1000)
        wheelCirc == wheelCircOf(vehicle)
        wheelRpmNow == wheelRpmOf(v, wheelCirc)
        motorRpmNow == motorRpmOf(wheelRpmNow, vehicle)
        socHyst == Max(10000, battery.socTargetBand) \div 2
        socHigh == clamp(socTarget + socHyst, battery.socMin, battery.socMax)
        rpmLimit == Max(1, vehicle.motorMaxRpm) * 100
        rpmSoftStart == Max(1, vehicle.motorMaxRpm) * 95
        pTracUserReqTaperedKw ==
            IF motorRpmNow > rpmSoftStart /\ pTracUserReqKw > 0
            THEN (pTracUserReqKw * overspeedScale(motorRpmNow, rpmLimit, rpmSoftStart))
                   \div 1000
            ELSE pTracUserReqKw
        sink == st.soc <= socHigh
    IN  [ socTarget |-> socTarget, socHigh |-> socHigh,
          pTracUserReqKw |-> pTracUserReqKw, evAssistMul |-> evAssistMul,
          pTracUserReqTaperedKw |-> pTracUserReqTaperedKw,
          motorRpmNow |-> motorRpmNow, rpmLimit |-> rpmLimit,
          rpmSoftStart |-> rpmSoftStart, wheelCirc |-> wheelCirc,
          sink |-> sink,
          genAllowedDirect |->
              sink \/ pTracUserReqTaperedKw > Max(0, engine.pEpsilonKw) ]

\* step.ts step: RPM follows target; available mechanical power at the
\* throttle command; parasitic loss; the generator power ceiling.
engineAvailability(st, cmd, cfg, stepDt) ==
    LET engine == cfg.engine
        generator == cfg.generator
        rpmNow == clamp(st.rpm + (((cmd.rpmTarget - st.rpm) * stepDt)
                                    \div Max(50, engine.rpmTimeConst)),
                        engine.idleRpm, engine.redlineRpm)
        gNow == clamp(rpmShape(rpmNow, engine.idleRpm, engine.redlineRpm, engine.effRpm), 0, 1100)
        pEngAvailKw == MulDiv((cmd.tpsCmd * engine.maxPowerKw) \div 1000, gNow, 1000)
        rpmNorm == clamp((rpmNow * 1000) \div Max(1, engine.redlineRpm), 0, 1200)
        parasiticKw ==
            MulDiv(engine.maxPowerKw,
                   10000 + ((8 * rpmNorm * rpmNorm) \div 100), 1000) \div 1000
        pEngNetAvailKw == Max(0, pEngAvailKw - parasiticKw)
    IN  [ rpmNow |-> rpmNow, pEngAvailKw |-> pEngAvailKw,
          parasiticKw |-> parasiticKw, pEngNetAvailKw |-> pEngNetAvailKw,
          pGenMaxKw |-> Min(generator.maxElecKw,
                            MulDiv(pEngNetAvailKw, generator.eff, 1000)) ]

\* step.ts step: the SOC-scaled battery discharge and charge caps.
batteryCaps(st, cfg) ==
    LET battery == cfg.battery
        socSpan == Max(20000, battery.socMax - battery.socMin)
        socDischargeFrac ==
            clamp(((st.soc - battery.socMin) * 1000) \div socSpan, 0, 1000)
        socChargeFrac ==
            clamp(((battery.socMax - st.soc) * 1000) \div socSpan, 0, 1000)
    IN  [ maxDischargeKw |-> (battery.maxDischargeKw * socDischargeFrac) \div 1000,
          maxChargeKw |-> (battery.maxChargeKw * socChargeFrac) \div 1000 ]

\* step.ts step: the SOC bias and the traction caps.
socBias(st, cfg, controlMode, pGenCmdRawKw, caps) ==
    LET battery == cfg.battery
        vehicle == cfg.vehicle
        targetSoc == clamp(battery.socTarget, battery.socMin, battery.socMax)
        band == Max(10000, battery.socTargetBand)
        socErr == st.soc - targetSoc
        socFrac == clamp((socErr * 1000) \div band, -1000, 1000)
        desiredDischargeKw ==
            IF socFrac > 0 THEN (socFrac * caps.maxDischargeKw) \div 1000 ELSE 0
        desiredChargeKw ==
            IF socFrac < 0
            THEN ((((-socFrac) * 800) \div 1000)
                    * Min(caps.maxChargeKw, pGenCmdRawKw)) \div 1000
            ELSE 0
        pTracCapHardKw ==
            clamp(pGenCmdRawKw + caps.maxDischargeKw, 0, vehicle.motorPeakPowerKw)
        pTracCapSocKw ==
            IF controlMode = "bsfc_island_direct" /\ socFrac < 0
            THEN clamp(pGenCmdRawKw - desiredChargeKw, 0, pTracCapHardKw)
            ELSE pTracCapHardKw
    IN  [ socFrac |-> socFrac, desiredDischargeKw |-> desiredDischargeKw,
          desiredChargeKw |-> desiredChargeKw,
          pTracCapHardKw |-> pTracCapHardKw, pTracCapSocKw |-> pTracCapSocKw ]

\* Fault variant of regenMilliW: no one-pedal regen.
regenMilliWNone(st, aps, cfg) == 0

\* step.ts step: one-pedal regen power for this tick, in mW: the speed
\* factor v / 15 of a slowly rolling vehicle is far below 1/1000.
regenMilliW(st, aps, cfg) ==
    LET vehicle == cfg.vehicle
        battery == cfg.battery
        regenSocMax == Min(battery.socMax, vehicle.regenMaxSoc)
        socHeadroom ==
            clamp(((regenSocMax - st.soc) * 1000)
                    \div Max(10000, regenSocMax - battery.socMin), 0, 1000)
        apsFactor == IF aps < 50 THEN ((50 - aps) * 1000) \div 50 ELSE 0
    IN  MulDiv(MulDiv(vehicle.regenMaxKw * apsFactor, clamp(st.vMps, 0, 15000), 15000),
               socHeadroom, 1000)

\* step.ts step: one-pedal regen power for this tick (W).
regenElecKwOf(st, aps, cfg) == regenMilliW(st, aps, cfg) \div 1000

\* Fault variant of tractionRamp: the request is passed on unlimited.
tractionRampNone(pReq, st, cfg, stepDt, pTracCapHardKw) == pReq

\* step.ts step: the traction ramp limiter.
tractionRamp(pReq, st, cfg, stepDt, pTracCapHardKw) ==
    LET vehicle == cfg.vehicle
        rampKwPerS == Max(0, vehicle.tracRampKwPerS)
        maxDelta == (rampKwPerS * stepDt) \div 1000
        lo == -Max(0, vehicle.regenMaxKw)
        hi == Max(0, pTracCapHardKw)
    IN  IF rampKwPerS > 0
        THEN clamp(clamp(pReq, st.pTracElecKw - maxDelta, st.pTracElecKw + maxDelta),
                   lo, hi)
        ELSE pReq

\* step.ts step: the second overspeed taper, on the shaped request.
overspeedTaper(pReq, req) ==
    LET scale ==
            IF pReq >= 0
            THEN overspeedScale(req.motorRpmNow, req.rpmLimit, req.rpmSoftStart)
            ELSE IF req.motorRpmNow >= (req.rpmLimit * 11) \div 10 THEN 0 ELSE 1000
        acts == req.motorRpmNow > req.rpmSoftStart /\ scale < 1000
    IN  [ p |-> IF acts THEN (pReq * scale) \div 1000 ELSE pReq, limited |-> acts ]

\* step.ts step: the requested traction electrical power of the tick: cap,
\* regen, overspeed taper, ramp limiter.
tractionShaping(st, aps, cfg, stepDt, req, bias) ==
    LET vehicle == cfg.vehicle
        pCapped == clamp(req.pTracUserReqTaperedKw, 0, bias.pTracCapSocKw)
        regenElecKw == regenElecKwOf(st, aps, cfg)
        pRegen == IF regenElecKw > 0
                  THEN clamp(pCapped - regenElecKw, -vehicle.regenMaxKw,
                             vehicle.motorPeakPowerKw)
                  ELSE pCapped
        taper == overspeedTaper(pRegen, req)
        pTracElecReqKw == tractionRamp(taper.p, st, cfg, stepDt, bias.pTracCapHardKw)
    IN  [ pTracElecReqKw |-> pTracElecReqKw,
          pWheelsReqKw |-> MulDiv(pTracElecReqKw, vehicle.drivetrainEff, 1000),
          regenActive |-> regenElecKw > 0 \/ regenMilliW(st, aps, cfg) > 0,
          regenElecKw |-> regenElecKw,
          tracPower |-> (pCapped < req.pTracUserReqTaperedKw) \/ taper.limited ]

\* step.ts step: the generator's electrical target from traction and SOC bias.
genTarget(pTracElecReqKw, bias, generator) ==
    IF pTracElecReqKw < 0 THEN 0
    ELSE clamp(pTracElecReqKw + bias.desiredChargeKw - bias.desiredDischargeKw,
               0, generator.maxElecKw)

\* Fault variant of demandRamp: the command follows the target at once.
demandRampNone(pGenElecTargetKw, st, generator, stepDt) ==
    clamp(pGenElecTargetKw, 0, generator.maxElecKw)

\* step.ts step: the controller-side demand ramp on the generator command.
demandRamp(pGenElecTargetKw, st, generator, stepDt) ==
    LET pGenElecCmdKw == Max(0, st.pGenElecCmdKw)
        demandRampKwPerS == Max(0, generator.demandRampKwPerS)
        maxDelta == (demandRampKwPerS * stepDt) \div 1000
        ramped == IF demandRampKwPerS > 0
                  THEN clamp(pGenElecTargetKw, pGenElecCmdKw - maxDelta,
                             pGenElecCmdKw + maxDelta)
                  ELSE pGenElecTargetKw
    IN  clamp(ramped, 0, generator.maxElecKw)

\* Fault variant of genLag: the first-order lag without the ramp-rate limit.
genLagNoRamp(pGenElecCmdKw, st, generator, stepDt) ==
    LET genTau == clamp(generator.responseTimeSec, 0, 10000)
        alpha == clamp((stepDt * 1000) \div Max(1, genTau), 0, 1000)
    IN  IF genTau > 1
        THEN st.pGenElecKw + MulDiv(pGenElecCmdKw - st.pGenElecKw, alpha, 1000)
        ELSE pGenElecCmdKw

\* step.ts step: the generator's first-order lag and plant ramp rate.
genLag(pGenElecCmdKw, st, generator, stepDt) ==
    LET genTau == clamp(generator.responseTimeSec, 0, 10000)
        alpha == clamp((stepDt * 1000) \div Max(1, genTau), 0, 1000)
        lagged == IF genTau > 1
                  THEN st.pGenElecKw
                         + MulDiv(pGenElecCmdKw - st.pGenElecKw, alpha, 1000)
                  ELSE pGenElecCmdKw
        rampKwPerS == Max(0, generator.proRampKwPerS)
        maxDelta == (rampKwPerS * stepDt) \div 1000
    IN  IF rampKwPerS > 0
        THEN clamp(lagged, st.pGenElecKw - maxDelta, st.pGenElecKw + maxDelta)
        ELSE lagged

\* Fault variant of genClamp: the plant output is floored at zero but not
\* limited to what the engine can supply.
genClampNoCeiling(pGenLagged, pGenMaxKw, socFrac, pTracElecReqKw) ==
    LET pGenElecKw == Max(0, pGenLagged)
    IN  IF socFrac > 0 /\ pTracElecReqKw > 0
        THEN Min(pGenElecKw, pTracElecReqKw)
        ELSE pGenElecKw

\* step.ts step: the generator output clamped to what the engine can supply
\* and, above the SOC target, to the traction request.
genClamp(pGenLagged, pGenMaxKw, socFrac, pTracElecReqKw) ==
    LET pGenElecKw == clamp(pGenLagged, 0, pGenMaxKw)
    IN  IF socFrac > 0 /\ pTracElecReqKw > 0
        THEN Min(pGenElecKw, pTracElecReqKw)
        ELSE pGenElecKw

\* step.ts step: bus voltage (0.1 V) implied by a battery power (W).
vBusOf(pBattKw, battery) ==
    LET iBatt == (pBattKw * 100) \div Max(10, battery.vNom)
    IN  battery.vNom - ((iBatt * battery.rInt) \div 1000)

\* step.ts step: the undervoltage-derived maximum battery power.
pBattMaxUvOf(battery, bus) ==
    LET iMaxDischarge == ((battery.vNom - bus.vMin) * 1000) \div Max(1, battery.rInt)
    IN  MulDiv(iMaxDischarge, battery.vNom, 100)

\* step.ts step: the overvoltage-derived minimum battery power.
pBattMinOvOf(battery, bus) ==
    LET iMaxCharge == ((bus.vMax - battery.vNom) * 1000) \div Max(1, battery.rInt)
    IN  -MulDiv(iMaxCharge, battery.vNom, 100)

\* step.ts step: the battery power after the SOC-scaled caps.
socCapClamp(pBattKw, caps) ==
    LET afterDischarge == IF pBattKw > caps.maxDischargeKw
                          THEN caps.maxDischargeKw ELSE pBattKw
    IN  [ pBattKw |-> IF afterDischarge < -caps.maxChargeKw
                      THEN -caps.maxChargeKw ELSE afterDischarge,
          battDischarge |-> pBattKw > caps.maxDischargeKw,
          battCharge |-> afterDischarge < -caps.maxChargeKw ]

\* Fault variant of voltageCapClamp: no overvoltage cap.
voltageCapClampNoOv(pBattSoc, vBusPre, battery, bus) ==
    LET pBattMaxUv == pBattMaxUvOf(battery, bus)
        busUv == pBattSoc > pBattMaxUv
    IN  [ pBattKw |-> IF busUv THEN pBattMaxUv ELSE pBattSoc,
          busUv |-> busUv, busOv |-> FALSE ]

\* Fault variant of voltageCapClamp: the undervoltage cap is applied without
\* raising the busUv flag.
voltageCapClampSilentUv(pBattSoc, vBusPre, battery, bus) ==
    LET pBattMaxUv == pBattMaxUvOf(battery, bus)
        pBattMinOv == pBattMinOvOf(battery, bus)
        afterUv == IF pBattSoc > pBattMaxUv THEN pBattMaxUv ELSE pBattSoc
        busOv == afterUv < pBattMinOv /\ vBusPre > bus.vMax + 20
    IN  [ pBattKw |-> IF busOv THEN pBattMinOv ELSE afterUv,
          busUv |-> FALSE, busOv |-> busOv ]

\* step.ts step: the battery power after the undervoltage and overvoltage caps.
voltageCapClamp(pBattSoc, vBusPre, battery, bus) ==
    LET pBattMaxUv == pBattMaxUvOf(battery, bus)
        pBattMinOv == pBattMinOvOf(battery, bus)
        busUv == pBattSoc > pBattMaxUv
        afterUv == IF busUv THEN pBattMaxUv ELSE pBattSoc
        busOv == afterUv < pBattMinOv /\ vBusPre > bus.vMax + 20
    IN  [ pBattKw |-> IF busOv THEN pBattMinOv ELSE afterUv,
          busUv |-> busUv, busOv |-> busOv ]

\* Fault variant of vBusNext: the computed bus voltage is stored unclamped.
vBusNextNoClamp(vBus, bus) == vBus

\* step.ts step: the bus voltage stored in the returned state.
vBusNext(vBus, bus) == clamp(vBus, bus.vMin, bus.vMax)

\* Fault variant of powerClosure: the generator output is not tapered.
powerClosureNoTaper(pGenElecKw, pBattKw, pTracElecReqKw, vBus, bus) ==
    [ pGenElecKw |-> pGenElecKw, pTracElecKw |-> pGenElecKw + pBattKw,
      busOv |-> FALSE ]

\* Fault variant of powerClosure: the generator is tapered but the traction
\* power keeps the sum computed before the taper.
powerClosureStaleSum(pGenElecKw, pBattKw, pTracElecReqKw, vBus, bus) ==
    [ pGenElecKw |-> IF pGenElecKw + pBattKw > pTracElecReqKw
                     THEN Max(0, pTracElecReqKw - pBattKw) ELSE pGenElecKw,
      pTracElecKw |-> pGenElecKw + pBattKw,
      busOv |-> FALSE ]

\* step.ts step: power closure; the generator tapers so that delivered
\* traction does not exceed the request.
powerClosure(pGenElecKw, pBattKw, pTracElecReqKw, vBus, bus) ==
    LET sum0 == pGenElecKw + pBattKw
        gen1 == IF sum0 > pTracElecReqKw
                THEN Max(0, pTracElecReqKw - pBattKw) ELSE pGenElecKw
        sum1 == gen1 + pBattKw
        second == sum1 > pTracElecReqKw + 10 /\ vBus > bus.vMax + 20
        gen2 == IF second THEN Max(0, pTracElecReqKw - pBattKw) ELSE gen1
    IN  [ pGenElecKw |-> gen2, pTracElecKw |-> gen2 + pBattKw, busOv |-> second ]

\* step.ts step: engine shaft power and the fuel rate (1e-3 gal/h).
fuelOutputs(pGenElecKw, parasiticKw, cfg) ==
    LET pEngMechKw == (pGenElecKw * 1000) \div Max(10, cfg.generator.eff)
        pFuelMechKw == Max(0, parasiticKw + pEngMechKw)
        pFuelKw == MulDiv(pFuelMechKw, 1000, Max(50, cfg.engine.engineEff))
    IN  [ pEngMechKw |-> pEngMechKw,
          fuelRateGph |-> MulDiv(pFuelKw, 1000, Max(1, cfg.engine.fuelKwhPerGallon)) ]

\* step.ts step: longitudinal dynamics of one tick.
vehicleDynamics(st, gradePct, cfg, stepDt, pWheelsKw, wheelCirc) ==
    LET vehicle == cfg.vehicle
        v == st.vMps
        vEff == Max(v, V_EPS)
        vCm == v \div 10
        fDrag == MulDiv(MulDiv(vCm * vCm, vehicle.cdA, 1000), RHO, 20000) \div 1000
        fRoll == (vehicle.cr * vehicle.massKg * 981) \div 100000
        fGrade == MulDiv((vehicle.massKg * 981) \div 100, sinAtanGrade(gradePct), 10000)
        isRegen == pWheelsKw < 0
        fTrac == MulDiv(pWheelsKw, 1000, vEff)
        regenForce == IF isRegen
                      THEN MulDiv(Abs(fTrac), vehicle.regenForceGain, 1000) ELSE 0
        netForce == fTrac - (fDrag + fRoll + fGrade) - regenForce
        a == MulDiv(netForce, 1000, vehicle.massKg)
        vNext == Max(0, v + MulDiv(a, stepDt, 1000))
        wheelRpm == wheelRpmOf(vNext, wheelCirc)
    IN  [ vMps |-> vNext, aMps2 |-> a, wheelRpm |-> wheelRpm,
          motorRpm |-> motorRpmOf(wheelRpm, vehicle),
          distanceM |-> st.distanceM + MulDiv(vNext, stepDt, 1000) ]

\* step.ts step: energy (1e-6 kWh) of a power held for one tick.
energyOf(pKw, stepDt) == MulDiv(pKw, stepDt, 3600)

\* Fault variant of socNext: the integrated state of charge is not clamped.
socNextNoClamp(soc, pBattKw, battery, stepDt) ==
    soc - MulDiv(energyOf(pBattKw, stepDt), 1000, Max(100, battery.capacityKwh))

\* step.ts step: the state of charge after the tick.
socNext(soc, pBattKw, battery, stepDt) ==
    clamp(soc - MulDiv(energyOf(pBattKw, stepDt), 1000, Max(100, battery.capacityKwh)),
          battery.socMin, battery.socMax)

\* step.ts step: the energy and fuel accumulators after the tick.
energyNext(energy, pTracElecKw, pGenElecKw, pBattKw, pEngMechKw, engine, stepDt) ==
    LET pFuelKw == MulDiv(pEngMechKw, 1000, Max(50, engine.engineEff))
    IN  [ eTracOutKwh |-> energy.eTracOutKwh + energyOf(pTracElecKw, stepDt),
          eGenKwh |-> energy.eGenKwh + energyOf(pGenElecKw, stepDt),
          eBattOutKwh |-> energy.eBattOutKwh + energyOf(Max(0, pBattKw), stepDt),
          eBattInKwh |-> energy.eBattInKwh + energyOf(Max(0, -pBattKw), stepDt),
          fuelGallons |-> energy.fuelGallons
                            + MulDiv(energyOf(pFuelKw, stepDt), 1000,
                                     engine.fuelKwhPerGallon) ]

\* Fault variant of limiterReset: the input state's flags are kept.
limiterKeep(st) == st.limiter

\* step.ts step: the flags of the returned state start from all-false,
\* whatever the input state's flags were.
limiterReset(st) == NoLimiter

\* step.ts step: a flag is raised by each site that detects its condition.
limiterRaise(base, tracPower, battDischarge, battCharge, busUv, busOv) ==
    [ tracPower |-> base.tracPower \/ tracPower,
      battDischarge |-> base.battDischarge \/ battDischarge,
      battCharge |-> base.battCharge \/ battCharge,
      busUv |-> base.busUv \/ busUv,
      busOv |-> base.busOv \/ busOv ]

\* step.ts step: the cumulative limiter timers after the tick.
limiterTimeNext(limiterTime, limiter, stepDt) ==
    [ tracPower |-> limiterTime.tracPower + (IF limiter.tracPower THEN stepDt ELSE 0),
      battDischarge |->
          limiterTime.battDischarge + (IF limiter.battDischarge THEN stepDt ELSE 0),
      battCharge |->
          limiterTime.battCharge + (IF limiter.battCharge THEN stepDt ELSE 0),
      busUv |-> limiterTime.busUv + (IF limiter.busUv THEN stepDt ELSE 0),
      busOv |-> limiterTime.busOv + (IF limiter.busOv THEN stepDt ELSE 0) ]

\* The tick's local variables are threaded through the stages of step as one
\* record t: each stage reads the locals computed so far and adds its own.

\* step.ts step: pedal intent, control mode and traction request.
tickRequest(t) ==
    LET aps == clamp(t.in.aps, 0, 1000)
        controlMode == resolveControlMode(t.cfg)
    IN  t @@ [ aps |-> aps, controlMode |-> controlMode,
               req |-> tractionRequest(t.st, aps, t.cfg, controlMode) ]

\* step.ts step: the control profile's mode update and command.
tickMode(t) ==
    LET ctx == [ state |-> t.st, aps |-> t.aps, config |-> t.cfg, dt |-> t.dt,
                 pTracUserReqTaperedKw |-> t.req.pTracUserReqTaperedKw,
                 sink |-> t.req.sink, socTarget |-> t.req.socTarget,
                 socHigh |-> t.req.socHigh,
                 genAllowedDirect |-> t.req.genAllowedDirect ]
        modeUpdate == profileUpdateMode(t.controlMode, ctx,
                          [ engineMode |-> t.st.engineMode,
                            modeTimerSec |-> t.st.modeTimerSec ])
    IN  t @@ [ modeUpdate |-> modeUpdate,
               cmd |-> profileCommand(t.controlMode, ctx, modeUpdate) ]

\* step.ts step: engine availability and the battery's SOC-scaled caps.
tickEngine(t) ==
    t @@ [ eng |-> engineAvailability(t.st, t.cmd, t.cfg, t.dt),
           caps |-> batteryCaps(t.st, t.cfg) ]

\* step.ts step: SOC bias and traction caps (pGenCmdRawKw is pGenMaxKw).
tickBias(t) ==
    t @@ [ bias |-> socBias(t.st, t.cfg, t.controlMode, t.eng.pGenMaxKw, t.caps) ]

\* step.ts step: the shaped traction request.
tickTraction(t) ==
    t @@ [ trac |-> tractionShaping(t.st, t.aps, t.cfg, t.dt, t.req, t.bias) ]

\* step.ts step: generator target, command and plant output.
tickGenerator(t) ==
    LET pGenElecTargetKw == genTarget(t.trac.pTracElecReqKw, t.bias, t.cfg.generator)
        pGenElecCmdKw == demandRamp(pGenElecTargetKw, t.st, t.cfg.generator, t.dt)
    IN  t @@ [ pGenElecTargetKw |-> pGenElecTargetKw,
               pGenElecCmdKw |-> pGenElecCmdKw,
               pGenPlantKw |->
                   genClamp(genLag(pGenElecCmdKw, t.st, t.cfg.generator, t.dt),
                            t.eng.pGenMaxKw, t.bias.socFrac, t.trac.pTracElecReqKw) ]

\* step.ts step: battery power after the SOC-scaled caps, and the bus
\* voltage it implies.
tickBattSoc(t) ==
    LET socClamp == socCapClamp(t.trac.pTracElecReqKw - t.pGenPlantKw, t.caps)
    IN  t @@ [ socClamp |-> socClamp,
               vBusPre |-> vBusOf(socClamp.pBattKw, t.cfg.battery) ]

\* step.ts step: battery power after the voltage caps, and the bus voltage
\* recomputed from it.
tickBattVolt(t) ==
    LET voltClamp == voltageCapClamp(t.socClamp.pBattKw, t.vBusPre,
                                     t.cfg.battery, t.cfg.bus)
    IN  t @@ [ voltClamp |-> voltClamp,
               pBattKw |-> voltClamp.pBattKw,
               vBus |-> vBusOf(voltClamp.pBattKw, t.cfg.battery) ]

\* step.ts step: power closure and wheel power.
tickClosure(t) ==
    LET closure == powerClosure(t.pGenPlantKw, t.pBattKw, t.trac.pTracElecReqKw,
                                t.vBus, t.cfg.bus)
    IN  t @@ [ closure |-> closure,
               pTracElecKw |-> closure.pTracElecKw,
               pWheelsKw |->
                   MulDiv(closure.pTracElecKw, t.cfg.vehicle.drivetrainEff, 1000) ]

\* step.ts step: fuel outputs, limiter flags and vehicle dynamics.
tickOutputs(t) ==
    t @@ [ fuel |-> fuelOutputs(t.closure.pGenElecKw, t.eng.parasiticKw, t.cfg),
           limiter |->
               limiterRaise(limiterReset(t.st),
                            t.trac.tracPower
                              \/ t.pWheelsKw < t.trac.pWheelsReqKw - 500,
                            t.socClamp.battDischarge, t.socClamp.battCharge,
                            t.voltClamp.busUv,
                            t.voltClamp.busOv \/ t.closure.busOv),
           dyn |-> vehicleDynamics(t.st, t.in.gradePct, t.cfg, t.dt, t.pWheelsKw,
                                   t.req.wheelCirc) ]

\* step.ts step: the returned state.
tickNext(t) ==
    [ t.st EXCEPT
        !.timeSec = t.st.timeSec + t.dt,
        !.prevTps = t.aps,
        !.regenActive = t.trac.regenActive,
        !.engineMode = t.modeUpdate.engineMode,
        !.modeTimerSec = t.modeUpdate.modeTimerSec,
        !.rpmTarget = t.cmd.rpmTarget,
        !.tqTargetNm = t.cmd.tqTargetNm,
        !.tpsCmd = t.cmd.tpsCmd,
        !.rpm = t.eng.rpmNow,
        !.pEngAvailKw = t.eng.pEngAvailKw,
        !.pTracCapKw = t.bias.pTracCapSocKw,
        !.pWheelsReqKw = t.trac.pWheelsReqKw,
        !.pWheelsCmdKw = t.trac.pWheelsReqKw,
        !.vBus = vBusNext(t.vBus, t.cfg.bus),
        !.pWheelsKw = t.pWheelsKw,
        !.pTracElecKw = t.pTracElecKw,
        !.pGenElecCmdKw = Max(0, t.pGenElecCmdKw),
        !.pGenElecKw = Max(0, t.closure.pGenElecKw),
        !.pBattKw = t.pBattKw,
        !.pEngMechKw = t.fuel.pEngMechKw,
        !.fuelRateGph = t.fuel.fuelRateGph,
        !.vMps = t.dyn.vMps,
        !.wheelRpm = t.dyn.wheelRpm,
        !.motorRpm = t.dyn.motorRpm,
        !.genRpm = MulDiv(t.eng.rpmNow, t.cfg.generator.stepUpRatio, 1000),
        !.aMps2 = t.dyn.aMps2,
        !.distanceM = t.dyn.distanceM,
        !.soc = socNext(t.st.soc, t.pBattKw, t.cfg.battery, t.dt),
        !.energy = energyNext(t.st.energy, t.pTracElecKw,
                              Max(0, t.closure.pGenElecKw), t.pBattKw,
                              t.fuel.pEngMechKw, t.cfg.engine, t.dt),
        !.limiter = t.limiter,
        !.limiterTime = limiterTimeNext(t.st.limiterTime, t.limiter, t.dt) ]

\* The locals of a tick that the properties below speak about.
tickLocals(t) ==
    [ aps |-> t.aps,
      pTracUserReqTaperedKw |-> t.req.pTracUserReqTaperedKw,
      genAllowedDirect |-> t.req.genAllowedDirect,
      pTracUserReqKw |-> t.req.pTracUserReqKw,
      evAssistMul |-> t.req.evAssistMul,
      island |-> IF "island" \in DOMAIN t.cmd THEN t.cmd.island ELSE noIslandDecision,
      motorRpmNow |-> t.req.motorRpmNow,
      rpmSoftStart |-> t.req.rpmSoftStart,
      pEngNetAvailKw |-> t.eng.pEngNetAvailKw,
      pGenMaxKw |-> t.eng.pGenMaxKw,
      maxDischargeKw |-> t.caps.maxDischargeKw,
      maxChargeKw |-> t.caps.maxChargeKw,
      socFrac |-> t.bias.socFrac,
      pTracCapHardKw |-> t.bias.pTracCapHardKw,
      regenElecKw |-> t.trac.regenElecKw,
      pTracElecReqKw |-> t.trac.pTracElecReqKw,
      pGenElecTargetKw |-> t.pGenElecTargetKw,
      pGenPlantKw |-> t.pGenPlantKw,
      pBattSocKw |-> t.socClamp.pBattKw,
      vBusPre |-> t.vBusPre,
      pBattMaxUv |-> pBattMaxUvOf(t.cfg.battery, t.cfg.bus),
      pBattMinOv |-> pBattMinOvOf(t.cfg.battery, t.cfg.bus),
      vBus |-> t.vBus ]

\* step.ts step: all the locals of one call.
tick(st, in, cfg, stepDt) ==
    tickOutputs(tickClosure(tickBattVolt(tickBattSoc(tickGenerator(tickTraction(
        tickBias(tickEngine(tickMode(tickRequest(
            [ st |-> st, in |-> in, cfg |-> cfg, dt |-> stepDt ]))))))))))

\* step.ts step: one call, as the returned state.
step(st, in, cfg, stepDt) == tickNext(tick(st, in, cfg, stepDt))

----------------------------------------------------------------------------
(* The state machine: a configuration and a timestep are fixed at          *)
(* construction, the state is createInitialState(config), and every        *)
(* transition is one call of step with some driver input.                  *)

MaxTicks == 4

\* SimInputs (pedal in 1/1000, road grade in percent): lifted, feathered
\* between apsOff and apsOn, a pedal value beyond full travel (step clamps
\* it to 1), and lifted on a 10 % descent.
Inputs ==
    { [aps |-> 0, gradePct |-> 0], [aps |-> 40, gradePct |-> 0],
      [aps |-> 1500, gradePct |-> 0], [aps |-> 0, gradePct |-> -10] }

\* The application default under a control strategy.
configFor(m) ==
    [defaultConfig EXCEPT !.generator.controlMode = m, !.engine.controlMode = m]

\* Configurations: the default under each strategy, and user-adjusted ones:
\* a small battery charge limit, a bus window tight around vNom, an initial
\* SOC above socMax and one below socMin, a motor speed limit reached by
\* a charged battery's launch, a low motor speed limit with a slow traction
\* ramp, an island torque ceiling below what the charging demand needs, and
\* a slow traction ramp with a battery too empty to discharge, and a charged
\* battery's launch with the traction ramp switched off.
Configs ==
    { configFor("bsfc_island"), configFor("bsfc_island_direct"), configFor("direct"),
      [configFor("bsfc_island") EXCEPT !.battery.maxChargeKw = 20000],
      [configFor("bsfc_island_direct") EXCEPT
          !.bus.vMin = 3550, !.bus.vMax = 3620, !.battery.initialSoc = 300000],
      [configFor("bsfc_island") EXCEPT !.battery.initialSoc = 990000],
      [configFor("direct") EXCEPT !.battery.initialSoc = 20000],
      [configFor("direct") EXCEPT
          !.vehicle.motorMaxRpm = 7000, !.battery.initialSoc = 800000],
      [configFor("direct") EXCEPT
          !.vehicle.motorMaxRpm = 1600, !.vehicle.tracRampKwPerS = 40000,
          !.battery.initialSoc = 800000],
      [configFor("bsfc_island") EXCEPT !.engine.islandTqMaxNm = 60],
      [configFor("direct") EXCEPT
          !.vehicle.tracRampKwPerS = 40000, !.battery.initialSoc = 20000],
      [configFor("direct") EXCEPT
          !.vehicle.motorMaxRpm = 7000, !.vehicle.tracRampKwPerS = 0,
          !.battery.initialSoc = 800000] }

\* step takes the timestep as an argument (ms).  Every configuration runs
\* at a coarse 0.5 s, which brings the engine's minimum on and off times
\* within a few calls; the default under each strategy also runs at the
\* worker's DT of 0.05 s.
Scenarios ==
    { [config |-> c, dt |-> 500] : c \in Configs }
      \cup { [config |-> configFor(m), dt |-> 50] :
                m \in {"bsfc_island", "bsfc_island_direct", "direct"} }

\* Object identity.  A SimState is one object holding references to four
\* nested objects (limiter, limiterTime, energy, the genDelayBuffer array);
\* objs names the five objects of a state by integer identities and top is
\* the largest identity allocated so far.
\* step.ts createInitialState: the literal allocates the array, the three
\* nested records and the state object itself.
createInitialObjects(top) ==
    [ genDelayBuffer |-> top + 1, limiter |-> top + 2, limiterTime |-> top + 3,
      energy |-> top + 4, state |-> top + 5 ]

\* step.ts step: the objects of the returned state.  `{...state, limiter:
\* {...}}` allocates next and its limiter; next.energy and next.limiterTime
\* are assigned fresh literals; next.genDelayBuffer is assigned the input
\* state's array reference.
stepObjects(objs, top) ==
    [ limiter |-> top + 1, state |-> top + 2, energy |-> top + 3,
      limiterTime |-> top + 4, genDelayBuffer |-> objs.genDelayBuffer ]

\* step.ts step: the objects step assigns into after they exist: next
\* (next.timeSec = ... and so on) and next.limiter (next.limiter.busUv = true
\* and so on).  Nothing is assigned through `state`.
stepWrites(objs, top) == { stepObjects(objs, top).state, stepObjects(objs, top).limiter }

\* The objects reachable from a state.
objectsOf(objs) ==
    { objs.state, objs.limiter, objs.limiterTime, objs.energy, objs.genDelayBuffer }

\* simWorker.ts DT (ms).
DT == 50

\* sim/defaults.ts defaultInputs.
defaultInputs == [ aps |-> 350, tps |-> 350, gradePct |-> 0 ]

\* simWorker.ts module state after load.  The wall-clock accumulator is not
\* modelled: WorkerTick is one iteration of tick's
\* `while (accumulator >= DT)` loop.
workerLoad ==
    [ inputs |-> defaultInputs, running |-> TRUE, recording |-> FALSE,
      recordedInputs |-> << >>, replaying |-> FALSE, replayStart |-> 0 ]

\* No call of sampleSeries has been made on a series of its own.
NoSampled ==
    [ done |-> FALSE, args |-> [ series |-> << >>, t |-> 0 ],
      out |-> [ t |-> 0, aps |-> 0, tps |-> 0 ], replayed |-> FALSE,
      eff |-> defaultInputs ]

\* simWorker.ts module state after load, the pacing part: the wall clock
\* performance.now() (ms, 0 at load), lastTime (ms), the accumulator (0.1 ms
\* of simulated time: ms of wall clock x tenths of the multiplier) and
\* speedMultiplier (tenths).  The other fields are the history of the
\* pacing: of the last call of tick, whether it ran the loop (ran), the step
\* calls it made (steps), the part of the time it measured that passed with
\* running = false (pausedIn) and whether it ran after a call that did not
\* (resumed); fed, the scaled time added to the accumulator since the state
\* was last replaced; pausedWall, the wall-clock time that has passed with
\* running = false since the last call of tick.
NoSched ==
    [ now |-> 0, lastTime |-> 0, accumulator |-> 0, speedMultiplier |-> 10,
      ran |-> FALSE, steps |-> 0, pausedIn |-> 0, resumed |-> FALSE,
      fed |-> 0, pausedWall |-> 0 ]

\* simWorker.ts resetState (the accumulator it assigns).
resetAccumulator(sc) == [ sc EXCEPT !.accumulator = 0, !.fed = 0 ]

\* History of a record-and-replay session: its phase, the inputs and states
\* of the recorded ticks (live) and of the replayed ticks (replay).
NoTrace == [ phase |-> "none", live |-> << >>, replay |-> << >> ]

NoLocals ==
    [ aps |-> 0, pTracUserReqTaperedKw |-> 0, genAllowedDirect |-> FALSE,
      pTracUserReqKw |-> 0, evAssistMul |-> 1000,
      island |-> noIslandDecision,
      motorRpmNow |-> 0, rpmSoftStart |-> 0,
      pEngNetAvailKw |-> 0, pGenMaxKw |-> 0,
      maxDischargeKw |-> 0, maxChargeKw |-> 0, socFrac |-> 0,
      pTracCapHardKw |-> 0, regenElecKw |-> 0, pTracElecReqKw |-> 0,
      pGenElecTargetKw |-> 0, pGenPlantKw |-> 0, pBattSocKw |-> 0,
      vBusPre |-> 0, pBattMaxUv |-> 0, pBattMinOv |-> 0, vBus |-> 0 ]

Init ==
    \E sc \in Scenarios :
        /\ config = sc.config
        /\ dt = sc.dt
        /\ state = createInitialState(sc.config)
        /\ prev = createInitialState(sc.config)
        /\ inputs = [aps |-> 0, gradePct |-> 0]
        /\ loc = NoLocals
        /\ called = FALSE
        /\ heap = [ cur |-> createInitialObjects(0), prev |-> createInitialObjects(0),
                    wrote |-> {}, top |-> 5 ]
        /\ worker = workerLoad
        /\ trace = NoTrace
        /\ search = NoSearch
        /\ sched = NoSched
        /\ sampled = NoSampled

\* One call of step(state, inputs, config, dt) by the caller's loop.
Step(in) ==
    /\ state.timeSec \div dt < MaxTicks
    /\ LET t == tick(state, in, config, dt)
       IN  state' = tickNext(t) /\ loc' = tickLocals(t)
    /\ prev' = state
    /\ inputs' = in
    /\ called' = TRUE
    /\ heap' = [ cur |-> stepObjects(heap.cur, heap.top), prev |-> heap.cur,
                 wrote |-> stepWrites(heap.cur, heap.top), top |-> heap.top + 4 ]
    /\ UNCHANGED <<config, dt, worker, trace, search, sched, sampled>>

Next == \E in \in Inputs : Step(in)

Spec == Init /\ [][Next]_vars

----------------------------------------------------------------------------
(* The scheduler (workers/simWorker.ts): it owns the configuration, the    *)
(* live inputs and the current state, applies step at the fixed DT, and    *)
(* handles the commands posted by the UI.  Wall-clock pacing (the          *)
(* accumulator, setSpeed) and the snapshot and export posts do not change  *)
(* what step is called with and are left out.                              *)

\* Steps taken since the last reset, and samples held in a recording.
MaxWorkerTicks == 2

MaxRecorded == 2

\* Fault variant of sampleIndex: the segment is always the first one.
sampleIndexFirst(series, t, i) == 1

\* simWorker.ts sampleSeries: the index (1-based) of the segment's left end.
RECURSIVE sampleIndex(_, _, _)
sampleIndex(series, t, i) ==
    IF i < Len(series) - 1 /\ series[i + 2].t < t
      THEN sampleIndex(series, t, i + 1)
      ELSE i + 1

\* simWorker.ts sampleSeries.  An absent gradePct is an absent record field.
\* The source floors the span at 1e-6 s; the smallest positive span of the
\* integer unit is 1 ms.
sampleSeries(series, t, live) ==
    IF Len(series) = 0 THEN [ t |-> t, aps |-> live.aps, tps |-> live.tps ]
    ELSE IF t <= series[1].t THEN series[1]
    ELSE IF t >= series[Len(series)].t THEN series[Len(series)]
    ELSE LET i == sampleIndex(series, t, 0)
             a == series[i]
             b == series[i + 1]
             span == Max(1, b.t - a.t)
             at(x, y) == x + (((y - x) * (t - a.t)) \div span)
             both == "gradePct" \in DOMAIN a /\ "gradePct" \in DOMAIN b
         IN  IF both
               THEN [ t |-> t, aps |-> at(a.aps, b.aps), tps |-> at(a.tps, b.tps),
                      gradePct |-> at(a.gradePct, b.gradePct) ]
             ELSE IF "gradePct" \in DOMAIN a
               THEN [ t |-> t, aps |-> at(a.aps, b.aps), tps |-> at(a.tps, b.tps),
                      gradePct |-> a.gradePct ]
             ELSE IF "gradePct" \in DOMAIN b
               THEN [ t |-> t, aps |-> at(a.aps, b.aps), tps |-> at(a.tps, b.tps),
                      gradePct |-> b.gradePct ]
             ELSE [ t |-> t, aps |-> at(a.aps, b.aps), tps |-> at(a.tps, b.tps) ]

\* simWorker.ts tick: whether this iteration takes its inputs from the
\* recording (replaying, more than one sample, not past the last sample).
replayApplies(w, st) ==
    /\ w.replaying
    /\ Len(w.recordedInputs) > 1
    /\ st.timeSec - w.replayStart <= w.recordedInputs[Len(w.recordedInputs)].t

\* simWorker.ts tick: the inputs this iteration passes to step.
effectiveInputsOf(w, st) ==
    IF replayApplies(w, st)
      THEN LET sample == sampleSeries(w.recordedInputs, st.timeSec - w.replayStart, w.inputs)
           IN  [ w.inputs EXCEPT
                   !.aps = sample.tps, !.tps = sample.tps,
                   !.gradePct = IF "gradePct" \in DOMAIN sample
                                  THEN sample.gradePct ELSE w.inputs.gradePct ]
      ELSE w.inputs

\* simWorker.ts tick: the sample pushed after the step while recording.
recordedPoint(st, eff) ==
    [ t |-> st.timeSec, aps |-> eff.tps, tps |-> eff.tps, gradePct |-> eff.gradePct ]

\* simWorker.ts tick: the module state after one iteration of the loop.
workerAfterTick(w, st, eff, nx) ==
    [ w EXCEPT
        !.replaying = IF w.replaying /\ Len(w.recordedInputs) > 1 /\ ~replayApplies(w, st)
                        THEN FALSE ELSE @,
        !.recordedInputs = IF w.recording THEN Append(@, recordedPoint(nx, eff)) ELSE @ ]

\* simWorker.ts setConfig: a section of the patch is merged into the
\* configuration's section, field by field.
applyConfigPatch(cfg, patch) ==
    [ k \in DOMAIN cfg |-> IF k \in DOMAIN patch THEN patch[k] @@ cfg[k] ELSE cfg[k] ]

\* The session history after a step with inputs eff that returned nx.
traceAfterTick(tr, eff, nx) ==
    LET entry == [ aps |-> eff.aps, gradePct |-> eff.gradePct, state |-> nx ]
    IN  IF tr.phase = "recording"
          THEN [ tr EXCEPT !.live = Append(@, entry) ]
        ELSE IF tr.phase = "replaying" /\ Len(tr.replay) < Len(tr.live)
          THEN [ tr EXCEPT !.replay = Append(@, entry) ]
        ELSE NoTrace

\* The session history after a command: reset, startRecording, the ticks,
\* stopRecording, reset, startReplay in this order make a session; any
\* other command but setInputs and setRunning ends it.
traceAfter(tr, cmd) ==
    CASE cmd = "reset" /\ tr.phase = "stopped" -> [ tr EXCEPT !.phase = "rewound" ]
          [] cmd = "reset" /\ tr.phase # "stopped" -> [ NoTrace EXCEPT !.phase = "fresh" ]
          [] cmd = "startRecording" /\ tr.phase = "fresh" -> [ tr EXCEPT !.phase = "recording" ]
          [] cmd = "stopRecording" /\ tr.phase = "recording" /\ Len(tr.live) > 0 ->
                 [ tr EXCEPT !.phase = "stopped" ]
          [] cmd = "startReplay" /\ tr.phase = "rewound" -> [ tr EXCEPT !.phase = "replaying" ]
          [] cmd \in { "setInputs", "setRunning" } -> tr
          [] OTHER -> NoTrace

\* Commands the UI posts: input patches (the UI keeps aps equal to tps:
\* pedal lifted, pedal at the default), the configurations for init (the
\* defaults, and one with another idle speed and initial charge) and a
\* configuration patch for setConfig.
InputPatches ==
    { [ aps |-> 0, tps |-> 0 ], [ aps |-> 350, tps |-> 350 ] }

InitConfigs ==
    { defaultConfig,
      [ defaultConfig EXCEPT !.engine.idleRpm = 1000, !.battery.initialSoc = 700000 ] }

ConfigPatches == { [ battery |-> [ initialSoc |-> 500000 ] ] }

\* simWorker.ts resetState (the state and the replay fields it assigns).
resetState(w) == [ w EXCEPT !.replaying = FALSE, !.replayStart = 0 ]

\* A reset that keeps the running state (variant of Restart).
RestartKeepsState(cfg) ==
    /\ state' = state
    /\ prev' = state
    /\ loc' = NoLocals
    /\ called' = FALSE

\* The step-outcome variables after a command that replaces the state.
Restart(cfg) ==
    /\ state' = createInitialState(cfg)
    /\ prev' = createInitialState(cfg)
    /\ loc' = NoLocals
    /\ called' = FALSE

\* simWorker.ts tick: one iteration of the step loop, while running.
WorkerTick ==
    /\ worker.running
    /\ state.timeSec \div DT < MaxWorkerTicks
    /\ worker.recording => Len(worker.recordedInputs) < MaxRecorded
    /\ LET eff == effectiveInputsOf(worker, state)
           nx  == step(state, eff, config, DT)
       IN  /\ state' = nx
           /\ loc' = tickLocals(tick(state, eff, config, DT))
           /\ prev' = state
           /\ inputs' = eff
           /\ called' = TRUE
           /\ worker' = workerAfterTick(worker, state, eff, nx)
           /\ trace' = traceAfterTick(trace, eff, nx)
    /\ UNCHANGED <<config, dt, heap, search, sched, sampled>>

\* simWorker.ts onmessage "init".
OnInit(cfg) ==
    /\ config' = cfg
    /\ worker' = [ resetState(worker) EXCEPT !.inputs = defaultInputs ]
    /\ Restart(cfg)
    /\ trace' = traceAfter(trace, "init")
    /\ sched' = resetAccumulator(sched)
    /\ UNCHANGED <<dt, inputs, heap, search, sampled>>

\* simWorker.ts onmessage "setRunning".
OnSetRunning(b) ==
    /\ worker' = [ worker EXCEPT !.running = b ]
    /\ trace' = traceAfter(trace, "setRunning")
    /\ UNCHANGED <<config, dt, state, prev, inputs, loc, called, heap, search, sched, sampled>>

\* simWorker.ts onmessage "setInputs".
OnSetInputs(patch) ==
    /\ worker' = [ worker EXCEPT !.inputs = patch @@ @ ]
    /\ trace' = traceAfter(trace, "setInputs")
    /\ UNCHANGED <<config, dt, state, prev, inputs, loc, called, heap, search, sched, sampled>>

\* simWorker.ts onmessage "setConfig".
OnSetConfig(patch) ==
    /\ config' = applyConfigPatch(config, patch)
    /\ worker' = worker
    /\ trace' = traceAfter(trace, "setConfig")
    /\ UNCHANGED <<dt, state, prev, inputs, loc, called, heap, search, sched, sampled>>

\* simWorker.ts onmessage "reset".
OnReset ==
    /\ worker' = resetState(worker)
    /\ Restart(config)
    /\ trace' = traceAfter(trace, "reset")
    /\ sched' = resetAccumulator(sched)
    /\ UNCHANGED <<config, dt, inputs, heap, search, sampled>>

\* simWorker.ts onmessage "startRecording".
OnStartRecording ==
    /\ worker' = [ worker EXCEPT !.recording = TRUE, !.recordedInputs = << >> ]
    /\ trace' = traceAfter(trace, "startRecording")
    /\ UNCHANGED <<config, dt, state, prev, inputs, loc, called, heap, search, sched, sampled>>

\* simWorker.ts onmessage "stopRecording".
OnStopRecording ==
    /\ worker' = [ worker EXCEPT !.recording = FALSE ]
    /\ trace' = traceAfter(trace, "stopRecording")
    /\ UNCHANGED <<config, dt, state, prev, inputs, loc, called, heap, search, sched, sampled>>

\* simWorker.ts onmessage "startReplay".
OnStartReplay ==
    /\ worker' = IF Len(worker.recordedInputs) > 1
                   THEN [ worker EXCEPT !.replaying = TRUE, !.replayStart = state.timeSec ]
                   ELSE worker
    /\ trace' = traceAfter(trace, "startReplay")
    /\ UNCHANGED <<config, dt, state, prev, inputs, loc, called, heap, search, sched, sampled>>

\* simWorker.ts onmessage "stopReplay".
OnStopReplay ==
    /\ worker' = [ worker EXCEPT !.replaying = FALSE ]
    /\ trace' = traceAfter(trace, "stopReplay")
    /\ UNCHANGED <<config, dt, state, prev, inputs, loc, called, heap, search, sched, sampled>>

\* simWorker.ts module load: config and inputs are the defaults and the
\* state is createInitialState(config).
WorkerInit ==
    /\ config = defaultConfig
    /\ dt = DT
    /\ state = createInitialState(defaultConfig)
    /\ prev = createInitialState(defaultConfig)
    /\ inputs = defaultInputs
    /\ loc = NoLocals
    /\ called = FALSE
    /\ heap = [ cur |-> createInitialObjects(0), prev |-> createInitialObjects(0),
                wrote |-> {}, top |-> 5 ]
    /\ worker = workerLoad
    /\ trace = NoTrace
    /\ search = NoSearch
    /\ sched = NoSched
    /\ sampled = NoSampled

WorkerNext ==
    \/ WorkerTick
    \/ \E cfg \in InitConfigs : OnInit(cfg)
    \/ \E b \in BOOLEAN : OnSetRunning(b)
    \/ \E patch \in InputPatches : OnSetInputs(patch)
    \/ \E patch \in ConfigPatches : OnSetConfig(patch)
    \/ OnReset
    \/ OnStartRecording
    \/ OnStopRecording
    \/ OnStartReplay
    \/ OnStopReplay

WorkerSpec == WorkerInit /\ [][WorkerNext]_vars

----------------------------------------------------------------------------
(* The scheduler's pacing (simWorker.ts tick): wall-clock time passes, the *)
(* timer calls tick, and tick turns the time measured since its last call  *)
(* into calls of step at the fixed DT.  Commands are handled between two   *)
(* calls of tick, at any moment of the wall clock.                         *)

\* Wall-clock time (ms) up to which a run is followed, the longest time
\* between two calls of tick, and the step of the clock.
MaxWall == 80

MaxGap == 48

ClockStep == 16

\* simWorker.ts tick: setTimeout(tick, 16).
TickPeriod == 16

\* DT in the accumulator's unit.
accDT == DT * 10

\* simWorker.ts onmessage "setSpeed": Math.max(0.1, Number(speed) || 1), for
\* a speed given in hundredths, in tenths.
speedOf(speed) == Max(1, IF speed = 0 THEN 10 ELSE speed \div 10)

\* Speeds the UI posts (hundredths): 0, 0.05, 3.
Speeds == { 0, 5, 300 }

\* The value of a one-element set (binds a computed value once).
only(S) == CHOOSE x \in S : TRUE

\* simWorker.ts tick: the run after the iteration that called step with eff,
\* whose locals are t and which returned nx.
afterStep(r, eff, t, nx) ==
    [ w |-> workerAfterTick(r.w, r.st, eff, nx), st |-> nx,
      tr |-> traceAfterTick(r.tr, eff, nx), prev |-> r.st, eff |-> eff,
      loc |-> tickLocals(t), n |-> r.n + 1 ]

\* simWorker.ts tick: `state = step(state, effectiveInputs, config, DT)`.
stepWith(r, eff, cfg) ==
    only({ only({ afterStep(r, eff, t, nx) : nx \in { tickNext(t) } }) :
             t \in { tick(r.st, eff, cfg, DT) } })

\* simWorker.ts tick: one iteration of `while (accumulator >= DT)` on the run
\* r = [w, st, tr, prev, eff, loc, n]: the module state, the state, the
\* session history, and of the last call of step its input state, inputs
\* and locals, and the number of calls.
loopBody(r, cfg) ==
    only({ stepWith(r, eff, cfg) : eff \in { effectiveInputsOf(r.w, r.st) } })

\* Fault variant of drain: at most one iteration of the loop in a call of
\* tick.
drainOnce(r, acc, cfg) ==
    IF acc >= accDT
      THEN [ run |-> loopBody(r, cfg), accumulator |-> acc - accDT ]
      ELSE [ run |-> r, accumulator |-> acc ]

\* simWorker.ts tick: the loop `while (accumulator >= DT) { ...;
\* accumulator -= DT }`.
RECURSIVE drain(_, _, _)
drain(r, acc, cfg) ==
    IF acc >= accDT
      THEN only({ drain(r1, acc - accDT, cfg) : r1 \in { loopBody(r, cfg) } })
      ELSE [ run |-> r, accumulator |-> acc ]

\* The wall clock advances by one step; the timer calls tick no later than
\* MaxGap after its last call.
Pass ==
    /\ sched.now < MaxWall
    /\ sched.now - sched.lastTime < MaxGap
    /\ sched' = [ sched EXCEPT
                    !.now = @ + ClockStep,
                    !.pausedWall = IF worker.running THEN @ ELSE @ + ClockStep ]
    /\ UNCHANGED <<config, dt, state, prev, inputs, loc, called, heap, worker, trace,
                   search, sampled>>

\* Fault variant of measured: a call of tick while paused leaves lastTime as
\* it is.
measuredWhileRunning(sc, running) ==
    [ sc EXCEPT !.lastTime = IF running THEN sc.now ELSE @,
                !.pausedIn = sc.pausedWall, !.pausedWall = 0 ]

\* simWorker.ts tick: `lastTime = now`, on every call, running or not.
measured(sc, running) ==
    [ sc EXCEPT !.lastTime = sc.now,
                !.pausedIn = sc.pausedWall, !.pausedWall = 0 ]

\* simWorker.ts tick, called by the timer TickPeriod or more after its last
\* call.
SchedTick ==
    /\ sched.now - sched.lastTime >= TickPeriod
    /\ LET gap     == sched.now - sched.lastTime
           elapsed == gap * sched.speedMultiplier
           seen    == measured(sched, worker.running)
       IN  IF ~worker.running
             THEN /\ sched' = [ seen EXCEPT !.ran = FALSE, !.steps = 0,
                                             !.resumed = FALSE ]
                  /\ UNCHANGED <<state, prev, inputs, loc, called, worker, trace>>
             ELSE \E d \in { drain([ w |-> worker, st |-> state, tr |-> trace,
                                     prev |-> prev, eff |-> inputs, loc |-> loc,
                                     n |-> 0 ],
                                   sched.accumulator + elapsed, config) } :
                      /\ sched' = [ seen EXCEPT
                                      !.ran = TRUE, !.steps = d.run.n,
                                      !.resumed = (~sched.ran /\ sched.lastTime > 0),
                                      !.accumulator = d.accumulator,
                                      !.fed = @ + elapsed ]
                      /\ state' = d.run.st
                      /\ prev' = d.run.prev
                      /\ inputs' = d.run.eff
                      /\ loc' = d.run.loc
                      /\ called' = (called \/ d.run.n > 0)
                      /\ worker' = d.run.w
                      /\ trace' = d.run.tr
    /\ UNCHANGED <<config, dt, heap, search, sampled>>

\* simWorker.ts onmessage "setSpeed".
OnSetSpeed(speed) ==
    /\ sched' = [ sched EXCEPT !.speedMultiplier = speedOf(speed) ]
    /\ UNCHANGED <<config, dt, state, prev, inputs, loc, called, heap, worker, trace,
                   search, sampled>>

\* The paced scheduler: the clock, the timer and the commands that act on
\* the pacing (setRunning, setSpeed, reset, init).
SchedNext ==
    \/ Pass
    \/ SchedTick
    \/ \E b \in BOOLEAN : OnSetRunning(b)
    \/ \E speed \in Speeds : OnSetSpeed(speed)
    \/ OnReset
    \/ \E cfg \in InitConfigs : OnInit(cfg)

SchedSpec == WorkerInit /\ [][SchedNext]_vars

----------------------------------------------------------------------------
(* The zero-input run: a caller that starts from createInitialState(config) *)
(* and calls step with the pedal lifted on a level road at every tick.      *)

\* Calls of step in a zero-input run.
MaxZeroTicks == 160

\* SimInputs of the run: accelerator 0, grade 0.
ZeroInput == [aps |-> 0, gradePct |-> 0]

\* Configurations of the run, at a timestep of 0.5 s: the default under the
\* two pedal-driven strategies, and under bsfc_island a battery at its SOC
\* target and a small battery below it with a 10 kW engine-on threshold,
\* whose charge from SOC 0.5 ends within the run.
ZeroScenarios ==
    { [config |-> c, dt |-> 500] :
        c \in { configFor("direct"), configFor("bsfc_island_direct"),
                [configFor("bsfc_island") EXCEPT !.battery.initialSoc = 600000],
                [configFor("bsfc_island") EXCEPT
                    !.engine.pEpsilonKw = 10000, !.battery.initialSoc = 500000,
                    !.battery.capacityKwh = 2000] } }

ZeroInit ==
    \E sc \in ZeroScenarios :
        /\ config = sc.config
        /\ dt = sc.dt
        /\ state = createInitialState(sc.config)
        /\ prev = createInitialState(sc.config)
        /\ inputs = ZeroInput
        /\ loc = NoLocals
        /\ called = FALSE
        /\ heap = [ cur |-> createInitialObjects(0), prev |-> createInitialObjects(0),
                    wrote |-> {}, top |-> 5 ]
        /\ worker = workerLoad
        /\ trace = NoTrace
        /\ search = NoSearch
        /\ sched = NoSched
        /\ sampled = NoSampled

\* The caller's loop makes its next call: the current state is passed in and
\* the objects of the result are allocated.
ZeroCall ==
    /\ state.timeSec \div dt < MaxZeroTicks
    /\ prev' = state
    /\ called' = TRUE
    /\ heap' = [ cur |-> stepObjects(heap.cur, heap.top), prev |-> heap.cur,
                 wrote |-> stepWrites(heap.cur, heap.top), top |-> heap.top + 4 ]

\* One call of step(state, {aps: 0, gradePct: 0}, config, dt).
ZeroStep ==
    /\ ZeroCall
    /\ LET t == tick(state, ZeroInput, config, dt)
       IN  state' = tickNext(t) /\ loc' = tickLocals(t)
    /\ inputs' = ZeroInput
    /\ UNCHANGED <<config, dt, worker, trace, search, sched, sampled>>

\* The loop never stops calling: a call that can be made is made.  The
\* fairness is on the call, ZeroCall, which every ZeroStep contains and whose
\* enabling condition is the tick bound alone.
ZeroSpec == ZeroInit /\ [][ZeroStep]_vars /\ WF_<<prev, called, heap>>(ZeroCall)

----------------------------------------------------------------------------
(* The BSFC search on its own: findBestPointForPower is a pure function of *)
(* its arguments, called here once with arguments of any sign and order.   *)

\* The BsfcSpec of the default engine.
searchBsfcSpec == buildBsfcSpec(defaultConfig.engine)

\* Arguments of the call: requested mechanical power (W; negative, zero,
\* reachable and beyond reach), RPM bounds (one pair not increasing), torque
\* bounds (0.1 Nm) and sample counts up to the default 70.
SearchArgs ==
    [ pMechKw : {-5000, 0, 20000, 60000, 150000},
      rpmMin : {900, 1800}, rpmMax : {1800, 3200, 5200},
      tqMin : {0, 1000}, tqMax : {0, 2000, 6000},
      samples : {0, 1, 2, 7, 70} ]

SearchInit ==
    \E a \in SearchArgs :
        /\ config = defaultConfig
        /\ dt = DT
        /\ state = createInitialState(defaultConfig)
        /\ prev = createInitialState(defaultConfig)
        /\ inputs = [aps |-> 0, gradePct |-> 0]
        /\ loc = NoLocals
        /\ called = FALSE
        /\ heap = [ cur |-> createInitialObjects(0), prev |-> createInitialObjects(0),
                    wrote |-> {}, top |-> 5 ]
        /\ worker = workerLoad
        /\ trace = NoTrace
        /\ search = [NoSearch EXCEPT !.args = a]
        /\ sched = NoSched
        /\ sampled = NoSampled

\* The call findBestPointForPower(spec, pMechKw, rpmMin, rpmMax, tqMin, tqMax,
\* samples).
SearchCall ==
    /\ ~search.done
    /\ search' =
          [ search EXCEPT
              !.done = TRUE,
              !.out = findBestPointForPower(searchBsfcSpec, search.args.pMechKw,
                          search.args.rpmMin, search.args.rpmMax, search.args.tqMin,
                          search.args.tqMax, search.args.samples) ]
    /\ UNCHANGED <<config, dt, state, prev, inputs, loc, called, heap, worker, trace,
                   sched, sampled>>

SearchSpec == SearchInit /\ [][SearchCall]_vars

----------------------------------------------------------------------------
(* Scripted-input sampling on its own: sampleSeries is a pure function of  *)
(* a series and a time, and the replay branch of tick a pure function of   *)
(* the series, the replay-relative time and the live inputs.               *)

\* Samples in a series.
MaxSeriesLen == 3

\* Timestamps (ms) of the samples and times asked for: before, at, between
\* and after them.
SampleTimes == { 50, 100, 250 }

QueryTimes == { 0, 50, 70, 100, 175, 250, 300 }

\* types.ts ScriptedPoint: t, aps, tps and an optional gradePct.  Recorded
\* samples have aps = tps and a gradePct; a script may have neither.
SamplePoints ==
    { [ t |-> t, aps |-> v[1], tps |-> v[2] ] :
        t \in SampleTimes, v \in { <<0, 0>>, <<1000, 1000>>, <<300, 700>> } }
    \cup
    { [ t |-> t, aps |-> v[1], tps |-> v[2], gradePct |-> g ] :
        t \in SampleTimes, v \in { <<0, 0>>, <<1000, 1000>>, <<300, 700>> },
        g \in { -100, 50 } }

\* Timestamps strictly increasing.
Increasing(series) ==
    \A i \in 1 .. (Len(series) - 1) : series[i].t < series[i + 1].t

\* The non-empty series of strictly increasing timestamps.
SampleSeriesSet ==
    { series \in UNION { [ 1 .. n -> SamplePoints ] : n \in 1 .. MaxSeriesLen } :
        Increasing(series) }

\* The live inputs of the scheduler when the sample is taken.
liveInputs == [ aps |-> 350, tps |-> 350, gradePct |-> 20 ]

SampleInit ==
    \E series \in SampleSeriesSet, t \in QueryTimes :
        /\ config = defaultConfig
        /\ dt = DT
        /\ state = [ createInitialState(defaultConfig) EXCEPT !.timeSec = t ]
        /\ prev = createInitialState(defaultConfig)
        /\ inputs = liveInputs
        /\ loc = NoLocals
        /\ called = FALSE
        /\ heap = [ cur |-> createInitialObjects(0), prev |-> createInitialObjects(0),
                    wrote |-> {}, top |-> 5 ]
        /\ worker = [ workerLoad EXCEPT !.inputs = liveInputs, !.replaying = TRUE,
                                        !.recordedInputs = series, !.replayStart = 0 ]
        /\ trace = NoTrace
        /\ search = NoSearch
        /\ sched = NoSched
        /\ sampled = [ NoSampled EXCEPT !.args = [ series |-> series, t |-> t ] ]

\* The call sampleSeries(series, t), and the inputs the replay branch of tick
\* makes of it at replay-relative time t.
SampleCall ==
    /\ ~sampled.done
    /\ sampled' =
          [ sampled EXCEPT
              !.done = TRUE,
              !.out = sampleSeries(sampled.args.series, sampled.args.t, worker.inputs),
              !.replayed = replayApplies(worker, state),
              !.eff = effectiveInputsOf(worker, state) ]
    /\ UNCHANGED <<config, dt, state, prev, inputs, loc, called, heap, worker, trace,
                   search, sched>>

SampleSpec == SampleInit /\ [][SampleCall]_vars

----------------------------------------------------------------------------
(* Properties.  Each is a predicate on the outcome of a call of step: prev  *)
(* is the state passed in, state the state returned, inputs the call's      *)
(* inputs and loc the call's locals.                                        *)

IsDirectLike == config.generator.controlMode \in { "bsfc_island_direct", "direct" }

IslandToIdle == called /\ prev.engineMode = "island" /\ state.engineMode = "idle"

IdleToIsland == called /\ prev.engineMode = "idle" /\ state.engineMode = "island"

\* C1: after every call of step the returned soc lies in
\* [battery.socMin, battery.socMax], whatever the soc of the state passed in.
SocWithinBounds ==
    called => /\ state.soc >= config.battery.socMin
              /\ state.soc <= config.battery.socMax

\* C1 case: the state passed in had a soc above socMax (an out-of-range
\* initialSoc) and the returned soc is socMax.
SocClampedFromAbove ==
    /\ called
    /\ prev.soc > config.battery.socMax
    /\ state.soc = config.battery.socMax

\* C2: after every call of step the returned vBus lies in [bus.vMin, bus.vMax].
VBusWithinWindow ==
    called => /\ state.vBus >= config.bus.vMin
              /\ state.vBus <= config.bus.vMax

\* C2 case: the bus voltage computed from the final battery power is above
\* vMax and the returned vBus is vMax.
VBusClampedFromAbove ==
    /\ called
    /\ loc.vBus > config.bus.vMax
    /\ state.vBus = config.bus.vMax

\* C3 as stated: in every tick the delivered traction electrical power is at
\* most the requested traction electrical power (pWheelsReqKw / drivetrainEff,
\* the local pTracElecReqKw) plus a tolerance of 0.01 kW.
TractionNeverAboveRequest ==
    called => state.pTracElecKw <= loc.pTracElecReqKw + 10

\* C3 amended: the delivered traction electrical power is at most the larger
\* of the request and the battery power (plus 0.01 kW): the generator is
\* tapered down to zero, so delivery exceeds the request only by battery
\* power that a battery cap imposes on a regen request; a non-negative
\* request is never exceeded.
TractionAboveRequestOnlyByBattery ==
    called => /\ state.pTracElecKw <= Max(loc.pTracElecReqKw, state.pBattKw) + 10
              /\ loc.pTracElecReqKw >= 0 => state.pTracElecKw <= loc.pTracElecReqKw + 10

\* C3 case: a regen request that the battery charge cap curtails; the
\* generator delivers nothing and the traction power is the capped battery
\* power, above the (negative) request.
RegenCurtailedByChargeCap ==
    /\ called
    /\ loc.pTracElecReqKw < 0
    /\ state.limiter.battCharge
    /\ state.pGenElecKw = 0
    /\ state.pTracElecKw = state.pBattKw
    /\ state.pTracElecKw > loc.pTracElecReqKw + 10

\* C4 as stated: each of the five energy and fuel accumulators of the
\* returned state is at least its value in the state passed in.
AccumulatorsNonDecreasing ==
    called => /\ state.energy.eTracOutKwh >= prev.energy.eTracOutKwh
              /\ state.energy.eGenKwh >= prev.energy.eGenKwh
              /\ state.energy.eBattOutKwh >= prev.energy.eBattOutKwh
              /\ state.energy.eBattInKwh >= prev.energy.eBattInKwh
              /\ state.energy.fuelGallons >= prev.energy.fuelGallons

\* C5 as stated: under every strategy the engine leaves island for idle only
\* once the time in island (the mode timer advanced by this tick) has reached
\* engine.minOnTimeSec.
StopOnlyAfterMinOn ==
    IslandToIdle => prev.modeTimerSec + dt >= Max(0, config.engine.minOnTimeSec)

\* C5 amended: the engine leaves island for idle only once the time in island
\* has reached engine.minOnTimeSec, except that under the direct-like
\* strategies (direct, bsfc_island_direct) a pedal below apsOff stops it
\* at once.
StopOnlyAfterMinOnOrPedalLift ==
    IslandToIdle =>
        \/ prev.modeTimerSec + dt >= Max(0, config.engine.minOnTimeSec)
        \/ IsDirectLike /\ loc.aps < config.engine.apsOff

\* C5 case: under bsfc_island the pedal was lifted on the tick before (no
\* traction need) while the minimum on-time had not elapsed; the engine
\* stayed in island and stops on this tick, when the timer reaches it.
StopDeferredToMinOn ==
    /\ IslandToIdle
    /\ ~IsDirectLike
    /\ prev.prevTps = 0
    /\ prev.modeTimerSec > 0
    /\ prev.modeTimerSec < config.engine.minOnTimeSec
    /\ prev.modeTimerSec + dt >= config.engine.minOnTimeSec

\* C6: the engine leaves idle for island only once the time in idle (the
\* mode timer advanced by this tick) has reached engine.minOffTimeSec; every
\* mode change resets modeTimerSec to 0, and otherwise it grows by dt.
StartOnlyAfterMinOff ==
    called =>
        /\ IdleToIsland =>
               prev.modeTimerSec + dt >= Max(0, config.engine.minOffTimeSec)
        /\ state.engineMode # prev.engineMode => state.modeTimerSec = 0
        /\ state.engineMode = prev.engineMode =>
               state.modeTimerSec = prev.modeTimerSec + dt

\* C6 case: the pedal was already pressed on the tick before, the engine
\* stayed in idle because the minimum off-time had not elapsed, and it starts
\* on this tick with the timer reset.
StartDeferredToMinOff ==
    /\ IdleToIsland
    /\ prev.prevTps = 1000
    /\ prev.modeTimerSec > 0
    /\ prev.modeTimerSec < config.engine.minOffTimeSec
    /\ state.modeTimerSec = 0

\* C7: the returned pGenElecKw is never negative and at most
\* min(generator.maxElecKw, net available engine power of the tick x
\* generator.eff).
GeneratorWithinEngineSupply ==
    called =>
        /\ state.pGenElecKw >= 0
        /\ state.pGenElecKw <= config.generator.maxElecKw
        /\ state.pGenElecKw <= MulDiv(loc.pEngNetAvailKw, config.generator.eff, 1000)

\* C7 case: the generator produces exactly what the engine can supply, below
\* its own rating: the ceiling binds.
GeneratorAtEngineCeiling ==
    /\ called
    /\ state.pGenElecKw > 0
    /\ state.pGenElecKw = MulDiv(loc.pEngNetAvailKw, config.generator.eff, 1000)
    /\ state.pGenElecKw < config.generator.maxElecKw

LimiterTimeCountsFlaggedTicks ==
    called =>
        /\ \A f \in { "tracPower", "battDischarge", "battCharge", "busUv", "busOv" } :
               state.limiterTime[f]
                   = prev.limiterTime[f] + (IF state.limiter[f] THEN dt ELSE 0)
        /\ state.limiter.battDischarge
               <=> (loc.pTracElecReqKw - loc.pGenPlantKw > loc.maxDischargeKw)
        /\ state.limiter.battCharge
               <=> (Min(loc.pTracElecReqKw - loc.pGenPlantKw, loc.maxDischargeKw)
                      < -loc.maxChargeKw)
        /\ state.limiter.busUv <=> (loc.pBattSocKw > loc.pBattMaxUv)

\* C10 case: the discharge limiter was flagged in the state passed in and is
\* not detected in this tick: the flag is clear and its counter keeps the
\* time accumulated before.
LimiterFlagNotCarriedOver ==
    /\ called
    /\ prev.limiter.battDischarge
    /\ ~state.limiter.battDischarge
    /\ prev.limiterTime.battDischarge > 0
    /\ state.limiterTime.battDischarge = prev.limiterTime.battDischarge

\* C11 as stated: step assigns into no object of the state passed to it, and
\* the state it returns shares no nested record or array with that state.
StepReturnsUnsharedState ==
    called => /\ heap.wrote \cap objectsOf(heap.prev) = {}
              /\ objectsOf(heap.cur) \cap objectsOf(heap.prev) = {}

\* C12 as stated: in a session (reset, startRecording, N ticks,
\* stopRecording, reset, startReplay) the k-th replayed tick calls step with
\* the accelerator and grade of the k-th recorded tick and returns the state
\* the k-th recorded tick returned.
ReplayRepeatsRecordedRun ==
    trace.phase = "replaying" =>
        \A k \in 1 .. Len(trace.replay) : trace.replay[k] = trace.live[k]

\* The tick ran with the pedal fully lifted on a moving vehicle whose
\* battery is below the regen SOC ceiling.
LiftedWhileMoving ==
    /\ called
    /\ inputs.aps = 0
    /\ prev.vMps > 0
    /\ config.vehicle.regenMaxKw > 0
    /\ prev.soc < Min(config.battery.socMax, config.vehicle.regenMaxSoc)

unclampedRequestKw ==
    MulDiv((loc.aps * config.vehicle.motorPeakPowerKw) \div 1000, loc.evAssistMul, 1000)

\* A call made with the motor above 95% of motorMaxRpm and the pedal pressed.
OverspeedWithPedal ==
    called /\ loc.motorRpmNow > loc.rpmSoftStart /\ loc.aps > 0

\* The traction ramp limiter, which bounds the fall of the delivered power
\* to tracRampKwPerS x dt a call, lets it fall below the unclamped request.
RampAllowsRequest ==
    \/ config.vehicle.tracRampKwPerS <= 0
    \/ prev.pTracElecKw - (config.vehicle.tracRampKwPerS * dt) \div 1000
          < unclampedRequestKw

\* C14 as stated: whenever the motor is above 95% of motorMaxRpm and the
\* accelerator is positive, the returned state flags limiter.tracPower and its
\* pTracElecKw is strictly below the unclamped driver request.
OverspeedTaperAlwaysFlags ==
    OverspeedWithPedal =>
        /\ state.limiter.tracPower
        /\ state.pTracElecKw < unclampedRequestKw

\* C14 amended: above 95% of motorMaxRpm, limiter.tracPower is set whenever the
\* accelerator is at or above the regen-neutral 0.05 (below it one-pedal regen
\* may turn the request into braking, which is not tapered), and pTracElecKw
\* is strictly below the unclamped driver request whenever the traction ramp
\* limiter allows the power to fall that far within the call.
OverspeedTaperLimitsTraction ==
    OverspeedWithPedal =>
        /\ loc.aps >= 50 => state.limiter.tracPower
        /\ RampAllowsRequest => state.pTracElecKw < unclampedRequestKw

\* C14 witness: a full-pedal call above the soft limit that was flagged and
\* delivered less than the request.
OverspeedTapered ==
    /\ OverspeedWithPedal
    /\ loc.aps = 1000
    /\ RampAllowsRequest
    /\ state.limiter.tracPower
    /\ state.pTracElecKw < unclampedRequestKw
impliedTq(a, p, i) ==
    MulDiv(p, 9549, 100) \div sampleRpm(a.rpmMin, a.rpmMax, a.samples, i)

\* The samples of the call whose implied torque lies within [tqMin, tqMax].
survivors(a, p) ==
    { i \in 0 .. (a.samples - 1) : impliedTq(a, p, i) >= a.tqMin /\ impliedTq(a, p, i) <= a.tqMax }

\* bsfcValue at the i-th sample and its implied torque.
sampleBsfc(a, p, i) ==
    bsfcValue(searchBsfcSpec, sampleRpm(a.rpmMin, a.rpmMax, a.samples, i),
              impliedTq(a, p, i))

\* The result out is the sampled minimum for power p: null exactly when no
\* sample survives, otherwise a surviving sample (its RPM, implied torque
\* and bsfcValue) whose bsfcValue no other survivor undercuts.
sampledMinimum(a, p, out) ==
    IF survivors(a, p) = {} THEN ~out.found
    ELSE /\ out.found
         /\ \E i \in survivors(a, p) :
               /\ out.rpm = sampleRpm(a.rpmMin, a.rpmMax, a.samples, i)
               /\ out.tq = impliedTq(a, p, i)
               /\ out.bsfc = sampleBsfc(a, p, i)
         /\ \A j \in survivors(a, p) : out.bsfc <= sampleBsfc(a, p, j)

CommandInRange ==
    /\ state.rpmTarget >= config.engine.idleRpm
    /\ state.rpmTarget <= config.engine.redlineRpm
    /\ state.tpsCmd >= 0 /\ state.tpsCmd <= 1000
    /\ state.tqTargetNm >= 0
    /\ state.tqTargetNm <= Max(0, config.engine.islandTqMaxNm * 10)

\* The bsfc_island command of the call searched for a positive mechanical
\* need and findBestPointForPower returned null.
SearchInfeasible ==
    called /\ loc.island.searched /\ loc.island.pMechNeedKw > 0 /\ ~loc.island.found

\* The fallback torque: the torque the need implies at the island centre,
\* clamped to the ceiling.
FallbackTorque ==
    loc.island.tqDesiredNm =
        clamp(tqReqAt(loc.island.pMechNeedKw, loc.island.centreRpm), 0, loc.island.tqMax)

----------------------------------------------------------------------------
(* C18: the initial state, and the scheduler's reset and init.             *)

\* The fields of a state st that createInitialState fixes for cfg: the
\* engine idles at the idle speed, the battery holds the initial charge,
\* nothing has moved, no limiter is or has been active, no energy or fuel
\* has been counted.
FreshFor(st, cfg) ==
    /\ st.engineMode = "idle"
    /\ st.rpm = cfg.engine.idleRpm
    /\ st.rpmTarget = cfg.engine.idleRpm
    /\ st.soc = cfg.battery.initialSoc
    /\ st.timeSec = 0 /\ st.vMps = 0 /\ st.distanceM = 0
    /\ \A k \in { "tracPower", "battDischarge", "battCharge", "busUv", "busOv" } :
          st.limiter[k] = FALSE /\ st.limiterTime[k] = 0
    /\ \A k \in { "eTracOutKwh", "eGenKwh", "eBattOutKwh", "eBattInKwh", "fuelGallons" } :
          st.energy[k] = 0

\* A reset or init command of the scheduler.
ResetOrInit == OnReset \/ \E cfg \in InitConfigs : OnInit(cfg)

\* C18: createInitialState(config) is a state that idles at engine.idleRpm
\* with soc = battery.initialSoc, time, speed and distance 0, the five
\* limiter flags false and the five limiter times and five accumulators 0;
\* and every reset or init command of the scheduler leaves exactly
\* createInitialState of the configuration then current as the state.
ResetRestoresInitialState ==
    [][ResetOrInit =>
          /\ state' = createInitialState(config')
          /\ FreshFor(state', config')]_vars

\* A reset that followed a configuration patch, after the run had advanced
\* under the earlier configuration: the state is the initial state of the
\* patched configuration.
ResetAfterPatch ==
    /\ trace.phase = "fresh"
    /\ ~called
    /\ config # defaultConfig
    /\ state.soc = config.battery.initialSoc
    /\ state.soc # defaultConfig.battery.initialSoc
    /\ state.timeSec = 0

----------------------------------------------------------------------------
(* C19: power balance on the bus.                                          *)

\* The closure of the last tick lowered the generator power below what the
\* generator stage had produced.
ClosureReducedGenerator == called /\ state.pGenElecKw < loc.pGenPlantKw

\* C19: in every returned state the traction power is the stored generator
\* power plus the stored battery power, exactly, also in ticks whose power
\* closure reduced the generator power.
BusPowerBalance ==
    called => state.pTracElecKw = state.pGenElecKw + state.pBattKw

\* A tick whose closure reduced a positive generator power while the battery
\* was charging at a cap: the balance is met with the reduced value.
BalanceAfterClosure ==
    /\ ClosureReducedGenerator
    /\ state.pGenElecKw > 0
    /\ state.pBattKw < 0
    /\ state.pTracElecKw = state.pGenElecKw + state.pBattKw

----------------------------------------------------------------------------
(* C20: the controller's demand ramp on the generator command.             *)

\* The largest change of the generator command in one tick (W).
demandMaxDelta == MulDiv(Max(0, config.generator.demandRampKwPerS), dt, 1000)

\* The ramp bound the last tick's command: the target lay further from the
\* previous command than one tick's change allows.
DemandRampBinds ==
    /\ called
    /\ config.generator.demandRampKwPerS > 0
    /\ \/ loc.pGenElecTargetKw > prev.pGenElecCmdKw + demandMaxDelta
       \/ loc.pGenElecTargetKw < prev.pGenElecCmdKw - demandMaxDelta

\* C20: with generator.demandRampKwPerS > 0 and the configuration fixed, the
\* generator command of the returned state differs from the command of the
\* input state by at most demandRampKwPerS x dt, and lies in
\* [0, generator.maxElecKw].
DemandRampLimitsCommand ==
    config.generator.demandRampKwPerS > 0 =>
      /\ state.pGenElecCmdKw >= 0
      /\ state.pGenElecCmdKw <= config.generator.maxElecKw
      /\ called =>
            /\ state.pGenElecCmdKw - prev.pGenElecCmdKw <= demandMaxDelta
            /\ prev.pGenElecCmdKw - state.pGenElecCmdKw <= demandMaxDelta

\* A tick whose target jumped by more than one tick's change: the command
\* moved by exactly the allowed change and has not reached the target.
DemandRampHeldCommand ==
    /\ DemandRampBinds
    /\ state.pGenElecCmdKw = prev.pGenElecCmdKw + demandMaxDelta
    /\ state.pGenElecCmdKw < loc.pGenElecTargetKw

----------------------------------------------------------------------------
(* C21: the plant ramp-rate limit on the generator power.                  *)

\* The largest change of the generator power that the plant ramp allows in
\* one tick (W).
plantMaxDelta == MulDiv(Max(0, config.generator.proRampKwPerS), dt, 1000)

\* The last tick cut the generator power after the plant ramp: to what the
\* engine can supply, to the traction request above the SOC target, or in
\* the power closure.
GeneratorCutAfterRamp ==
    \/ state.pGenElecKw = loc.pGenMaxKw
    \/ loc.socFrac > 0 /\ loc.pTracElecReqKw > 0
         /\ state.pGenElecKw = loc.pTracElecReqKw
    \/ ClosureReducedGenerator

\* The statement as claimed: the generator power of the returned state is
\* within proRampKwPerS x dt of the input state's, rising or falling.
PlantRampLimitsBothWays ==
    called /\ config.generator.proRampKwPerS > 0 =>
      /\ state.pGenElecKw - prev.pGenElecKw <= plantMaxDelta
      /\ prev.pGenElecKw - state.pGenElecKw <= plantMaxDelta

\* C21: with generator.proRampKwPerS > 0 the generator power of the returned
\* state rises above the input state's by at most proRampKwPerS x dt in
\* every tick, and falls below it by more than that only in a tick that cut
\* the ramped power to the engine's supply, to the traction request above
\* the SOC target, or in the power closure.
PlantRampLimitsRise ==
    called /\ config.generator.proRampKwPerS > 0 =>
      /\ state.pGenElecKw - prev.pGenElecKw <= plantMaxDelta
      /\ prev.pGenElecKw - state.pGenElecKw > plantMaxDelta => GeneratorCutAfterRamp

\* A tick in which the command was more than one tick's ramp above the
\* generator power: the power rose by exactly the allowed change.
PlantRampHeldRise ==
    /\ called
    /\ config.generator.proRampKwPerS > 0
    /\ state.pGenElecCmdKw > prev.pGenElecKw + plantMaxDelta
    /\ state.pGenElecKw = prev.pGenElecKw + plantMaxDelta

----------------------------------------------------------------------------
(* C22: fixed-timestep sub-stepping in the scheduler.                      *)

\* A call of tick while running.
RunningTick == SchedTick /\ worker.running

\* The accumulator of a call of tick after it has added the scaled time
\* measured since the previous call.
accumulated == sched.accumulator
                 + (sched.now - sched.lastTime) * sched.speedMultiplier

\* C22: a call of tick while running adds the wall-clock time since the
\* previous call, times the speed multiplier, to the accumulator, calls step
\* exactly floor(accumulator / DT) times with dt = DT, and leaves the
\* remainder, in [0, DT), in the accumulator; and at every moment the
\* simulated time of the state plus the accumulator is the scaled time added
\* since the state was last replaced: none is lost, none applied twice.
SubSteppingKeepsTime ==
    [][ /\ RunningTick =>
            /\ sched'.steps = accumulated \div accDT
            /\ state'.timeSec = state.timeSec + DT * (accumulated \div accDT)
            /\ sched'.accumulator = accumulated % accDT
            /\ sched'.accumulator >= 0 /\ sched'.accumulator < accDT
        /\ 10 * state'.timeSec + sched'.accumulator = sched'.fed ]_vars

\* A call of tick that made two or more calls of step and left a remainder,
\* after earlier calls of tick had made calls of step too.
TickMadeSeveralSteps ==
    /\ sched.ran
    /\ sched.steps >= 2
    /\ sched.accumulator > 0
    /\ sched.fed > sched.steps * accDT + sched.accumulator
    /\ state.timeSec > sched.steps * DT

----------------------------------------------------------------------------
(* C23: pause in the scheduler.                                            *)

\* The statement as claimed, its second half: no wall-clock time that passed
\* while paused is inside the time a running call of tick accumulates.
PausedTimeNeverAccumulated == sched.ran => sched.pausedIn = 0

\* C23: while running is false no step of the scheduler changes the state or
\* the accumulator, except a reset or init command; a call of tick while
\* paused discards the time it measured (lastTime becomes now); and a
\* running call of tick accumulates the wall-clock time since the previous
\* call of tick only, so that of a pause it accumulates at most the part
\* after the last call of tick made while paused.
PauseHoldsStateAndTime ==
    [][ /\ ~worker.running =>
            \/ state' = state /\ sched'.accumulator = sched.accumulator
            \/ ResetOrInit
        /\ SchedTick /\ ~worker.running =>
            sched'.lastTime = sched.now /\ sched'.steps = 0
        /\ RunningTick =>
            /\ sched'.fed - sched.fed
                 = (sched.now - sched.lastTime) * sched.speedMultiplier
            /\ sched'.pausedIn <= sched.now - sched.lastTime ]_vars

\* The first running call of tick after calls made while paused, with the
\* setRunning(true) command handled some time after the last of them: the
\* state had advanced before the pause, and the call accumulated the time
\* since that last call, part of which passed while paused.
ResumedAfterPause ==
    /\ sched.resumed
    /\ sched.ran
    /\ sched.pausedIn > 0
    /\ sched.pausedIn < sched.now
    /\ state.timeSec > 0

----------------------------------------------------------------------------
(* C24: scripted-input sampling.                                           *)

\* o is the linear interpolation between x at time ta and y at time tb, at
\* time t, rounded down to the unit.
interpolates(o, x, y, ta, tb, t) ==
    /\ (o - x) * (tb - ta) <= (y - x) * (t - ta)
    /\ (y - x) * (t - ta) < (o - x + 1) * (tb - ta)

\* out is the interpolation at time t between the samples a and b: of aps
\* and tps, and of gradePct where both samples have one; where only one has,
\* out has that sample's.
interpolatedBetween(out, a, b, t) ==
    /\ out.t = t
    /\ interpolates(out.aps, a.aps, b.aps, a.t, b.t, t)
    /\ interpolates(out.tps, a.tps, b.tps, a.t, b.t, t)
    /\ ("gradePct" \in DOMAIN out) <=> ("gradePct" \in DOMAIN a \/ "gradePct" \in DOMAIN b)
    /\ "gradePct" \in DOMAIN a /\ "gradePct" \in DOMAIN b =>
          interpolates(out.gradePct, a.gradePct, b.gradePct, a.t, b.t, t)
    /\ "gradePct" \in DOMAIN a /\ "gradePct" \notin DOMAIN b => out.gradePct = a.gradePct
    /\ "gradePct" \notin DOMAIN a /\ "gradePct" \in DOMAIN b => out.gradePct = b.gradePct

\* A series as the scheduler records it: aps = tps and a gradePct in every
\* sample.
Recorded(series) ==
    \A i \in 1 .. Len(series) :
        series[i].aps = series[i].tps /\ "gradePct" \in DOMAIN series[i]

\* C24: for a non-empty series with strictly increasing timestamps
\* sampleSeries(series, t) is the first sample for t at or before the first
\* timestamp, the last sample for t at or after the last, and otherwise the
\* linear interpolation between the two adjacent samples whose timestamps
\* bracket t; and while a recorded series of two or more samples is replayed
\* and t is not past its last timestamp, the accelerator and the grade
\* passed to step are those of sampleSeries(series, t), not the live inputs.
SampleInterpolatesSeries ==
    sampled.done /\ Len(sampled.args.series) > 0 /\ Increasing(sampled.args.series) =>
      LET series == sampled.args.series
          t == sampled.args.t
          n == Len(series)
      IN  /\ t <= series[1].t => sampled.out = series[1]
          /\ t >= series[n].t => sampled.out = series[n]
          /\ series[1].t < t /\ t < series[n].t =>
                \E i \in 1 .. (n - 1) :
                    /\ series[i].t <= t /\ t <= series[i + 1].t
                    /\ interpolatedBetween(sampled.out, series[i], series[i + 1], t)
          /\ sampled.replayed <=> (n > 1 /\ t <= series[n].t)
          /\ sampled.replayed /\ Recorded(series) =>
                /\ sampled.eff.aps = sampled.out.aps
                /\ sampled.eff.gradePct = sampled.out.gradePct
          /\ ~sampled.replayed => sampled.eff = worker.inputs

\* A replay sample strictly between two recorded samples of different
\* accelerator and grade: step is passed a value strictly between the two,
\* and not the live one.
SampledBetweenRecorded ==
    /\ sampled.done
    /\ sampled.replayed
    /\ Recorded(sampled.args.series)
    /\ Len(sampled.args.series) = 3
    /\ sampled.args.t = 175
    /\ sampled.args.series[2].aps = 0 /\ sampled.args.series[3].aps = 1000
    /\ sampled.args.series[2].gradePct # sampled.args.series[3].gradePct
    /\ sampled.eff.aps = 500
    /\ sampled.eff.aps # worker.inputs.aps
    /\ sampled.eff.gradePct # worker.inputs.gradePct

----------------------------------------------------------------------------
(* C25: the traction ramp limit.                                           *)

\* The largest change of the traction request that the ramp allows in one
\* tick (W).
tracMaxDelta == MulDiv(Max(0, config.vehicle.tracRampKwPerS), dt, 1000)

\* The statement as claimed: the traction request of the tick is within
\* tracRampKwPerS x dt of the traction power of the input state.
TractionRampLimitsBothWays ==
    called /\ config.vehicle.tracRampKwPerS > 0 =>
      /\ loc.pTracElecReqKw - prev.pTracElecKw <= tracMaxDelta
      /\ prev.pTracElecKw - loc.pTracElecReqKw <= tracMaxDelta

\* The last tick's hard traction cap lay more than one tick's change below
\* the traction power of the input state.
HardCapFellBelowRamp ==
    called /\ Max(0, loc.pTracCapHardKw) < prev.pTracElecKw - tracMaxDelta

\* C25: with vehicle.tracRampKwPerS > 0 the traction request of a tick
\* exceeds the traction power of the input state by at most
\* tracRampKwPerS x dt, and falls below it by more than that only in a tick
\* whose hard traction cap lies further below; the request then is the cap.
TractionRampLimitsRise ==
    called /\ config.vehicle.tracRampKwPerS > 0 =>
      /\ loc.pTracElecReqKw - prev.pTracElecKw <= tracMaxDelta
      /\ prev.pTracElecKw - loc.pTracElecReqKw > tracMaxDelta =>
            /\ HardCapFellBelowRamp
            /\ loc.pTracElecReqKw = Max(0, loc.pTracCapHardKw)

\* A tick in which the overspeed taper had cut the request to zero and the
\* ramp held it at the previous power less one tick's change.
RampHeldTaperedRequest ==
    /\ called
    /\ config.vehicle.tracRampKwPerS > 0
    /\ loc.motorRpmNow > loc.rpmSoftStart
    /\ prev.pTracElecKw > tracMaxDelta
    /\ loc.pTracElecReqKw = prev.pTracElecKw - tracMaxDelta

----------------------------------------------------------------------------
(* C26: overspeed protection.                                              *)

\* A call made with the motor at or above motorMaxRpm.
AtMotorLimit == called /\ loc.motorRpmNow >= Max(1, config.vehicle.motorMaxRpm) * 100

\* What the traction ramp limiter still holds of the input state's traction
\* power: that power less one tick's change, if positive.
rampHeldKw ==
    IF config.vehicle.tracRampKwPerS > 0
      THEN Max(0, prev.pTracElecKw - tracMaxDelta)
      ELSE 0

\* The statement as claimed: with the motor at or above motorMaxRpm the
\* returned state delivers no positive traction power.
NoTractionAtMotorLimit == AtMotorLimit => state.pTracElecKw <= 0

\* C26: in a tick where the motor RPM derived from the current speed is at or
\* above vehicle.motorMaxRpm the returned traction power is at most what the
\* traction ramp limiter holds of the previous tick's power (that power less
\* tracRampKwPerS x dt, or 0 if that is negative or the ramp is off),
\* whatever the accelerator position.
TractionAtMotorLimitOnlyRamp == AtMotorLimit => state.pTracElecKw <= rampHeldKw

\* A tick at the motor limit with the pedal fully pressed and no power held
\* by the ramp: no traction power is delivered.
TractionCutAtMotorLimit ==
    /\ AtMotorLimit
    /\ loc.aps = 1000
    /\ loc.pTracUserReqKw > 0
    /\ rampHeldKw = 0
    /\ state.pTracElecKw = 0

----------------------------------------------------------------------------
(* C27: no generator charging above the SOC target.                        *)

\* A call made with the input state's soc above the clamped socTarget (by at
\* least the resolution of socFrac) and a traction request that is not
\* negative.
AboveTargetNoRegen == called /\ loc.socFrac > 0 /\ loc.pTracElecReqKw >= 0

\* C27: in a tick where the input state's soc is above the clamped socTarget
\* and the traction request is not negative, the returned battery power is
\* not negative: the generator does not charge the battery, also when the
\* traction request is exactly 0.
NoChargingAboveTarget == AboveTargetNoRegen => state.pBattKw >= 0

----------------------------------------------------------------------------
(* C28: engine idle means no generation.                                   *)

\* C28: a tick whose resulting engine mode is idle returns, under every
\* control strategy, rpmTarget = engine.idleRpm, tqTargetNm = 0, tpsCmd = 0,
\* pEngAvailKw = 0 and pGenElecKw = 0, whatever the generator power of the
\* input state.
IdleMeansNoGeneration ==
    called /\ state.engineMode = "idle" =>
      /\ state.rpmTarget = config.engine.idleRpm
      /\ state.tqTargetNm = 0
      /\ state.tpsCmd = 0
      /\ state.pEngAvailKw = 0
      /\ state.pGenElecKw = 0

\* A tick that took the engine from island to idle while the generator was
\* delivering power and the engine was above its idle speed.
IdleCutGeneration ==
    /\ called
    /\ prev.engineMode = "island"
    /\ state.engineMode = "idle"
    /\ prev.pGenElecKw > 0
    /\ prev.tpsCmd > 0
    /\ state.rpm > config.engine.idleRpm
    /\ state.pGenElecKw = 0

----------------------------------------------------------------------------
(* C29: the timestamps of the recorded input trace.                        *)

\* C29: the scheduler's recorded input trace always has strictly increasing
\* timestamps, under every interleaving of ticks with startRecording,
\* stopRecording, reset, init, setRunning, startReplay and stopReplay.
RecordedTimesIncrease == Increasing(worker.recordedInputs)

----------------------------------------------------------------------------
(* C30: the end of a replay.  The scheduler is followed over a longer run  *)
(* than in WorkerSpec, with the default configuration and live inputs,     *)
(* under the commands setRunning, reset, startRecording, stopRecording,    *)
(* startReplay and stopReplay.  The timer keeps calling tick: an iteration *)
(* of its loop that can be made is made.                                   *)

\* Steps taken since the last reset, and samples held in a recording.
MaxReplayTicks == 4

MaxReplayRecorded == 6

\* simWorker.ts tick: the loop makes an iteration (running, within the run
\* that is followed).
ReplayCall ==
    /\ worker.running
    /\ state.timeSec \div DT < MaxReplayTicks
    /\ worker.recording => Len(worker.recordedInputs) < MaxReplayRecorded
    /\ prev' = state
    /\ called' = TRUE

\* simWorker.ts tick: one iteration of the step loop, while running.
ReplayTick ==
    /\ ReplayCall
    /\ LET eff == effectiveInputsOf(worker, state)
           t   == tick(state, eff, config, DT)
           nx  == tickNext(t)
       IN  /\ state' = nx
           /\ loc' = tickLocals(t)
           /\ inputs' = eff
           /\ worker' = workerAfterTick(worker, state, eff, nx)
           /\ trace' = traceAfterTick(trace, eff, nx)
    /\ UNCHANGED <<config, dt, heap, search, sched, sampled>>

\* The run that is followed leaves room for a replay of the present trace
\* that started at time start: the iteration whose replay-relative time first
\* exceeds the last recorded timestamp is within MaxReplayTicks.
ReplayHasRoom(start) ==
    Len(worker.recordedInputs) > 1 =>
      (start + worker.recordedInputs[Len(worker.recordedInputs)].t) \div DT + 1
        < MaxReplayTicks

\* simWorker.ts onmessage "startReplay", sent while no replay is under way.
OnStartReplayOnce ==
    /\ ~worker.replaying
    /\ ReplayHasRoom(state.timeSec)
    /\ OnStartReplay

\* simWorker.ts onmessage "stopRecording"; during a replay it is sent while
\* the run leaves room for the replay of the trace it completes.
OnStopRecordingInRun ==
    /\ worker.replaying /\ worker.recording => ReplayHasRoom(worker.replayStart)
    /\ OnStopRecording

ReplayNext ==
    \/ ReplayTick
    \/ \E b \in BOOLEAN : OnSetRunning(b)
    \/ OnReset
    \/ OnStartRecording
    \/ OnStopRecordingInRun
    \/ OnStartReplayOnce
    \/ OnStopReplay

ReplaySpec ==
    WorkerInit /\ [][ReplayNext]_vars /\ WF_<<prev, called>>(ReplayCall)

\* The recording has reached the number of samples that is followed.
RecordingFull ==
    worker.recording /\ Len(worker.recordedInputs) >= MaxReplayRecorded

ReplayStuck ==
    /\ worker.replaying
    /\ \/ /\ worker.recording
          /\ \/ Len(worker.recordedInputs) = 0
             \/ worker.recordedInputs[Len(worker.recordedInputs)].t
                  >= state.timeSec - worker.replayStart
       \/ ~worker.recording /\ Len(worker.recordedInputs) <= 1

\* An iteration of tick made in such a state ends in such a state: the
\* behaviours that violate ReplayTerminates do not depend on where the run
\* that is followed stops, the replay stays on however long tick goes on.
StuckReplayStays == [][ReplayTick /\ ReplayStuck => ReplayStuck']_vars

====
